---- MODULE Spec2Model ----
(***************************************************************************)
(* Model of the privacy RPC proxy (packages/proxy) and of the coordinator  *)
(* ledger program (packages/coordinator) it observes.                      *)
(*                                                                         *)
(*   - the ledger program: initialize, create_batch, submit_query,         *)
(*     finalize_batch, complete_batch over the coordinator account and the *)
(*     batch accounts;                                                     *)
(*   - the proxy's CoordinatorReader and BatchPoller (poll_once,           *)
(*     handle_finalized_batch, processed_batches);                         *)
(*   - the /execute-batch handler and BatchExecutor::execute_batch with    *)
(*     its spawned query tasks;                                            *)
(*   - BatchResponse::from_results and the material it hashes.             *)
(***************************************************************************)
EXTENDS Integers, Sequences, FiniteSets, TLC

VARIABLES
    coordinator_state,   \* ledger: Option of the CoordinatorState account
    batch_accounts,      \* ledger: batch PDA seed id -> Option of the Batch account
    enable_poller,       \* proxy: ProxyConfig.enable_poller (AppState.coordinator is Some iff TRUE)
    poller_pc,           \* poller: "idle" | "scan" | "filter" | "dispatch" | "insert" | "write" | "panicked"
    scan_counter,        \* poller: batch_counter read by find_finalized_batches
    scan_i,              \* poller: next id find_finalized_batches probes
    finalized,           \* poller: Vec<OnChainBatch> built by the scan
    probes,              \* poller: the get_batch calls of the scan: id, exit, status
    warned,              \* poller: "Could not read batch counter" was logged
    tx_err,              \* ledger: Option of the error the last transaction failed with
    new_batches,         \* poller: batches of this cycle still to be handled
    processed_batches,   \* poller: HashSet<u64> of ids already surfaced
    discovered,          \* history: id -> number of handle_finalized_batch invocations
    call_pc,             \* execute-batch call: "idle" | "joining" | "returned"
    request,             \* execute-batch call: the BatchRequest being served
    handles,             \* execute-batch call: one spawned task per query
    results,             \* execute-batch call: Vec<QueryResult> collected so far
    outcome,             \* execute-batch call: Option of Ok(BatchResponse) / Err(ProxyError)
    checked,             \* history: the ledger account the request's batch_id named, at check time
    finish_order,        \* history: the indices of the tasks in the order they ended
    hash_in,             \* from_results harness: call k -> Option of its arguments
    hash_out,            \* from_results harness: call k -> Option of its BatchResponse
    decode_in,           \* parse_batch_data harness: Option of the bytes it is given
    decode_out,          \* parse_batch_data harness: Option of how the call ended
    poller_guard,        \* processed_batches lock: the guard the poller holds: "none" | "read" | "write"
    reader_guards        \* processed_batches lock: the is_batch_processed callers holding a read guard

ledger_vars == <<coordinator_state, batch_accounts, tx_err>>
lock_vars == <<poller_guard, reader_guards>>
poller_vars == <<poller_pc, scan_counter, scan_i, finalized, probes, warned, new_batches,
                 processed_batches, discovered, lock_vars>>
call_vars == <<call_pc, request, handles, results, outcome, checked, finish_order>>
hash_vars == <<hash_in, hash_out>>
decode_vars == <<decode_in, decode_out>>
vars == <<coordinator_state, batch_accounts, enable_poller, poller_pc, scan_counter,
          scan_i, finalized, new_batches, processed_batches, discovered, call_pc,
          request, handles, results, outcome, checked, finish_order, hash_in, hash_out,
          decode_in, decode_out, probes, warned, tx_err, poller_guard, reader_guards>>

(***************************************************************************)
(* Option<T>: None is the empty sequence, Some(v) the one-element one.     *)
(***************************************************************************)
None == <<>>
Some(v) == <<v>>
IsSome(o) == o # <<>>
Unwrap(o) == o[1]

(***************************************************************************)
(* Bounds of the model.                                                    *)
(***************************************************************************)
MaxBatches == 2        \* create_batch is taken while batch_counter < MaxBatches
MaxDiscover == 2       \* the discovery history counter saturates here
MaxQueries == 2        \* SpecExec: the longest request
MaxRequestLen == 102   \* SpecAdmit: the longest request
MaxResults == 2        \* SpecHash: the longest result sequence
MaxItems == 2          \* SpecDecode: the most queries a serialized batch holds
MaxReaders == 2        \* SpecLock: the concurrent callers of is_batch_processed

BatchIds == 0 .. (MaxBatches - 1)

(***************************************************************************)
(* The ledger program (packages/coordinator).                              *)
(***************************************************************************)
\* Batch::MAX_QUERIES: the account space create_batch allocates holds this many.
MAX_QUERIES == 20

\* Inputs of the instructions.
Keys == {"authority", "alice"}
Authorities == {"authority"}
Submitters == {"alice"}
SizePairs == {<<1, 2>>, <<2, 2>>, <<0, 1>>, <<2, 1>>}
Clock == {1000}
ResultHashes == {7}

\* initialize: require!(min > 0 && min <= max), then the fields are set.
initialize(authority, min_batch_size, max_batch_size) ==
    IF ~(min_batch_size > 0 /\ min_batch_size <= max_batch_size)
    THEN [err |-> Some("InvalidBatchSize"), state |-> None]
    ELSE [err |-> None,
          state |-> Some([authority |-> authority,
                          min_batch_size |-> min_batch_size,
                          max_batch_size |-> max_batch_size,
                          batch_counter |-> 0])]

\* ctx.bumps.batch: the bump seed of the batch PDA, a function of its seeds.
BatchBump(batch_id) == 255 - batch_id

\* A mutant of create_batch: the id is taken after the counter's increment.
create_batch_id_after_increment(state, now) ==
    [id |-> state.batch_counter + 1,
     status |-> "Pending",
     query_count |-> 0,
     query_hashes |-> <<>>,
     submitters |-> <<>>,
     created_at |-> now,
     finalized_at |-> None,
     results_hash |-> None,
     bump |-> BatchBump(state.batch_counter)]

\* create_batch: the new Batch account, with id = batch_counter.
create_batch(state, now) ==
    [id |-> state.batch_counter,
     status |-> "Pending",
     query_count |-> 0,
     query_hashes |-> <<>>,
     submitters |-> <<>>,
     created_at |-> now,
     finalized_at |-> None,
     results_hash |-> None,
     bump |-> BatchBump(state.batch_counter)]

\* A mutant of is_full: the comparison is strict.
is_full_off_by_one(batch, max_size) == batch.query_count > max_size

\* Batch::is_full
is_full(batch, max_size) == batch.query_count >= max_size

\* A mutant of can_finalize: the query count is not compared with the minimum.
can_finalize_any_count(batch, min_size) == batch.status = "Pending"

\* Batch::can_finalize
can_finalize(batch, min_size) ==
    batch.status = "Pending" /\ batch.query_count >= min_size

Contains(seq, x) == \E i \in 1 .. Len(seq) : seq[i] = x

\* A mutant of submit_query: the require! on query_hashes.contains is left out.
submit_query_no_duplicate_check(state, batch, query_hash, submitter) ==
    IF batch.status # "Pending"
    THEN [err |-> Some("BatchNotPending"), batch |-> batch]
    ELSE IF is_full(batch, state.max_batch_size)
    THEN [err |-> Some("BatchFull"), batch |-> batch]
    ELSE [err |-> None,
          batch |-> [batch EXCEPT !.query_hashes = Append(@, query_hash),
                                  !.submitters = Append(@, submitter),
                                  !.query_count = (@ + 1) % 256]]

\* A mutant of submit_query: the hash is pushed before the require! on
\* query_hashes.contains, so the DuplicateQuery failure leaves it pushed.
submit_query_push_before_check(state, batch, query_hash, submitter) ==
    IF batch.status # "Pending"
    THEN [err |-> Some("BatchNotPending"), batch |-> batch]
    ELSE IF is_full(batch, state.max_batch_size)
    THEN [err |-> Some("BatchFull"), batch |-> batch]
    ELSE IF Contains(batch.query_hashes, query_hash)
    THEN [err |-> Some("DuplicateQuery"),
          batch |-> [batch EXCEPT !.query_hashes = Append(@, query_hash)]]
    ELSE [err |-> None,
          batch |-> [batch EXCEPT !.query_hashes = Append(@, query_hash),
                                  !.submitters = Append(@, submitter),
                                  !.query_count = (@ + 1) % 256]]

\* A mutant of submit_query: the require! on the status is left out.
submit_query_any_status(state, batch, query_hash, submitter) ==
    IF is_full(batch, state.max_batch_size)
    THEN [err |-> Some("BatchFull"), batch |-> batch]
    ELSE IF Contains(batch.query_hashes, query_hash)
    THEN [err |-> Some("DuplicateQuery"), batch |-> batch]
    ELSE [err |-> None,
          batch |-> [batch EXCEPT !.query_hashes = Append(@, query_hash),
                                  !.submitters = Append(@, submitter),
                                  !.query_count = (@ + 1) % 256]]

\* A mutant of submit_query: the submitter is not pushed.
submit_query_no_submitter(state, batch, query_hash, submitter) ==
    IF batch.status # "Pending"
    THEN [err |-> Some("BatchNotPending"), batch |-> batch]
    ELSE IF is_full(batch, state.max_batch_size)
    THEN [err |-> Some("BatchFull"), batch |-> batch]
    ELSE IF Contains(batch.query_hashes, query_hash)
    THEN [err |-> Some("DuplicateQuery"), batch |-> batch]
    ELSE [err |-> None,
          batch |-> [batch EXCEPT !.query_hashes = Append(@, query_hash),
                                  !.query_count = (@ + 1) % 256]]

\* submit_query: three require!s in this order, then the pushes and the count.
submit_query(state, batch, query_hash, submitter) ==
    IF batch.status # "Pending"
    THEN [err |-> Some("BatchNotPending"), batch |-> batch]
    ELSE IF is_full(batch, state.max_batch_size)
    THEN [err |-> Some("BatchFull"), batch |-> batch]
    ELSE IF Contains(batch.query_hashes, query_hash)
    THEN [err |-> Some("DuplicateQuery"), batch |-> batch]
    ELSE [err |-> None,
          batch |-> [batch EXCEPT !.query_hashes = Append(@, query_hash),
                                  !.submitters = Append(@, submitter),
                                  !.query_count = (@ + 1) % 256]]

\* A mutant of finalize_batch: finalized_at is not written.
finalize_batch_no_timestamp(state, batch, now) ==
    IF ~can_finalize(batch, state.min_batch_size)
    THEN [err |-> Some("InsufficientQueries"), batch |-> batch]
    ELSE [err |-> None,
          batch |-> [batch EXCEPT !.status = "Finalized"]]

\* finalize_batch
finalize_batch(state, batch, now) ==
    IF ~can_finalize(batch, state.min_batch_size)
    THEN [err |-> Some("InsufficientQueries"), batch |-> batch]
    ELSE [err |-> None,
          batch |-> [batch EXCEPT !.status = "Finalized",
                                  !.finalized_at = Some(now)]]

\* A mutant of complete_batch: the constraint on the executor is left out.
complete_batch_any_signer(state, batch, results_hash, executor) ==
    IF batch.status # "Finalized"
    THEN [err |-> Some("BatchNotFinalized"), batch |-> batch]
    ELSE [err |-> None,
          batch |-> [batch EXCEPT !.status = "Executed",
                                  !.results_hash = Some(results_hash)]]

\* A mutant of complete_batch: only a Pending batch is refused.
complete_batch_again(state, batch, results_hash, executor) ==
    IF executor # state.authority
    THEN [err |-> Some("Unauthorized"), batch |-> batch]
    ELSE IF batch.status = "Pending"
    THEN [err |-> Some("BatchNotFinalized"), batch |-> batch]
    ELSE [err |-> None,
          batch |-> [batch EXCEPT !.status = "Executed",
                                  !.results_hash = Some(results_hash)]]

\* A mutant of complete_batch: the require! on the status is left out.
complete_batch_any_status(state, batch, results_hash, executor) ==
    IF executor # state.authority
    THEN [err |-> Some("Unauthorized"), batch |-> batch]
    ELSE [err |-> None,
          batch |-> [batch EXCEPT !.status = "Executed",
                                  !.results_hash = Some(results_hash)]]

\* complete_batch: the CompleteBatch accounts constraint (executor is the
\* authority) is checked before the instruction body runs.
complete_batch(state, batch, results_hash, executor) ==
    IF executor # state.authority
    THEN [err |-> Some("Unauthorized"), batch |-> batch]
    ELSE IF batch.status # "Finalized"
    THEN [err |-> Some("BatchNotFinalized"), batch |-> batch]
    ELSE [err |-> None,
          batch |-> [batch EXCEPT !.status = "Executed",
                                  !.results_hash = Some(results_hash)]]

\* The hash the k-th submitter of a batch sends when submitters do not collide.
FreshHash(batch) == batch.query_count + 1

(***************************************************************************)
(* Account data.  An account is the 8-byte discriminator followed by the   *)
(* borsh encoding of the struct, in an allocation of `space` bytes that    *)
(* starts zeroed.  Bytes are the integers 0 .. 255.                        *)
(***************************************************************************)
\* uN::to_le_bytes, for the values of the model.
RECURSIVE to_le_bytes(_, _)
to_le_bytes(n, width) ==
    IF width = 0 THEN <<>>
    ELSE <<n % 256>> \o to_le_bytes(n \div 256, width - 1)

RECURSIVE Flatten(_)
Flatten(arrays) == IF arrays = <<>> THEN <<>> ELSE Head(arrays) \o Flatten(Tail(arrays))

Zeros(n) == [i \in 1 .. n |-> 0]

\* The 32 bytes of a query hash or results hash the model names by a number.
HashBytes(h) == [i \in 1 .. 32 |-> (h + i) % 256]

\* The 32 bytes of a Pubkey the model names by a string.
PubkeyBytes(key) ==
    HashBytes(CASE key = "authority" -> 100
                [] key = "alice" -> 110
                [] OTHER -> 120)

\* The discriminators #[account] puts in front of each struct: the first 8
\* bytes of sha256("account:Batch") and of sha256("account:CoordinatorState").
BATCH_DISCRIMINATOR == <<156, 194, 70, 44, 22, 88, 137, 44>>
COORDINATOR_DISCRIMINATOR == <<46, 57, 27, 24, 141, 239, 105, 245>>

\* ctx.bumps.coordinator_state
CoordinatorBump == 254

\* BatchStatus as borsh writes it: the index of the variant.
StatusByte(status) ==
    CASE status = "Pending" -> 0
      [] status = "Finalized" -> 1
      [] status = "Executed" -> 2

\* borsh Vec<[u8; 32]>: a u32 length, then the items.
SerializeVec(arrays) == to_le_bytes(Len(arrays), 4) \o Flatten(arrays)

\* borsh Option<T>: a flag byte, then the payload when the flag is 1.
SerializeOption(opt, payload) == IF opt = None THEN <<0>> ELSE <<1>> \o payload

\* A Batch with its hashes and keys as their 32 bytes.
BatchBytes(batch) ==
    [batch EXCEPT !.query_hashes = [i \in 1 .. Len(@) |-> HashBytes(@[i])],
                  !.submitters = [i \in 1 .. Len(@) |-> PubkeyBytes(@[i])],
                  !.results_hash = IF @ = None THEN None ELSE Some(HashBytes(Unwrap(@)))]

\* The fields of Batch from id to results_hash, in declaration order.
EncodeFields(record) ==
    to_le_bytes(record.id, 8)
    \o <<StatusByte(record.status)>>
    \o <<record.query_count>>
    \o SerializeVec(record.query_hashes)
    \o SerializeVec(record.submitters)
    \o to_le_bytes(record.created_at, 8)
    \o SerializeOption(record.finalized_at,
                       IF record.finalized_at = None THEN <<>>
                       ELSE to_le_bytes(Unwrap(record.finalized_at), 8))
    \o SerializeOption(record.results_hash,
                       IF record.results_hash = None THEN <<>>
                       ELSE Unwrap(record.results_hash))

SerializeBatchFields(batch) == EncodeFields(BatchBytes(batch))

\* The serialized Batch: discriminator, fields, bump.
SerializeBatch(batch) ==
    BATCH_DISCRIMINATOR \o SerializeBatchFields(batch) \o <<batch.bump>>

\* Batch::size
BatchSize(max_queries) ==
    8 + 8 + 1 + 1 + 4 + (32 * max_queries) + 4 + (32 * max_queries) + 8 + 1 + 8 + 1 + 32 + 1

\* The data of a Batch account: space = Batch::size(Batch::MAX_QUERIES), the
\* serialized Batch at its start, the rest as allocated.
BatchAccountData(batch) ==
    LET bytes == SerializeBatch(batch)
    IN bytes \o Zeros(BatchSize(MAX_QUERIES) - Len(bytes))

\* The data of the CoordinatorState account (space = CoordinatorState::SIZE).
CoordinatorAccountData(state) ==
    COORDINATOR_DISCRIMINATOR
    \o PubkeyBytes(state.authority)
    \o <<state.min_batch_size, state.max_batch_size>>
    \o to_le_bytes(state.batch_counter, 8)
    \o <<CoordinatorBump>>

\* A transaction that fails is rolled back: only successful instructions
\* change the ledger.
Initialize(authority, min_batch_size, max_batch_size) ==
    /\ coordinator_state = None
    /\ LET r == initialize(authority, min_batch_size, max_batch_size)
       IN /\ r.err = None
          /\ coordinator_state' = r.state
    /\ tx_err' = None
    /\ UNCHANGED <<batch_accounts, enable_poller, poller_vars, call_vars, hash_vars, decode_vars>>

CreateBatch(now) ==
    /\ IsSome(coordinator_state)
    /\ LET state == Unwrap(coordinator_state)
       IN /\ state.batch_counter < MaxBatches
          /\ batch_accounts[state.batch_counter] = None
          /\ batch_accounts' =
                [batch_accounts EXCEPT ![state.batch_counter] = Some(create_batch(state, now))]
          /\ coordinator_state' = Some([state EXCEPT !.batch_counter = @ + 1])
    /\ tx_err' = None
    /\ UNCHANGED <<enable_poller, poller_vars, call_vars, hash_vars, decode_vars>>

SubmitQuery(batch_id, query_hash, submitter) ==
    /\ IsSome(coordinator_state)
    /\ IsSome(batch_accounts[batch_id])
    /\ LET r == submit_query(Unwrap(coordinator_state), Unwrap(batch_accounts[batch_id]),
                             query_hash, submitter)
       IN /\ r.err = None
          /\ r.batch.query_count <= MAX_QUERIES
          /\ batch_accounts' = [batch_accounts EXCEPT ![batch_id] = Some(r.batch)]
    /\ tx_err' = None
    /\ UNCHANGED <<coordinator_state, enable_poller, poller_vars, call_vars, hash_vars, decode_vars>>

FinalizeBatch(batch_id, now) ==
    /\ IsSome(coordinator_state)
    /\ IsSome(batch_accounts[batch_id])
    /\ LET r == finalize_batch(Unwrap(coordinator_state), Unwrap(batch_accounts[batch_id]), now)
       IN /\ r.err = None
          /\ batch_accounts' = [batch_accounts EXCEPT ![batch_id] = Some(r.batch)]
    /\ tx_err' = None
    /\ UNCHANGED <<coordinator_state, enable_poller, poller_vars, call_vars, hash_vars, decode_vars>>

CompleteBatch(batch_id, results_hash, executor) ==
    /\ IsSome(coordinator_state)
    /\ IsSome(batch_accounts[batch_id])
    /\ LET r == complete_batch(Unwrap(coordinator_state), Unwrap(batch_accounts[batch_id]),
                               results_hash, executor)
       IN /\ r.err = None
          /\ batch_accounts' = [batch_accounts EXCEPT ![batch_id] = Some(r.batch)]
    /\ tx_err' = None
    /\ UNCHANGED <<coordinator_state, enable_poller, poller_vars, call_vars, hash_vars, decode_vars>>

\* A transaction whose instruction fails is rolled back: no account changes
\* and the sender gets the error.
InitializeRejected(authority, min_batch_size, max_batch_size) ==
    /\ coordinator_state = None
    /\ LET r == initialize(authority, min_batch_size, max_batch_size)
       IN /\ r.err # None
          /\ tx_err' = r.err
    /\ UNCHANGED <<coordinator_state, batch_accounts, enable_poller, poller_vars, call_vars,
                   hash_vars, decode_vars>>

SubmitQueryRejected(batch_id, query_hash, submitter) ==
    /\ IsSome(coordinator_state)
    /\ IsSome(batch_accounts[batch_id])
    /\ LET r == submit_query(Unwrap(coordinator_state), Unwrap(batch_accounts[batch_id]),
                             query_hash, submitter)
       IN /\ r.err # None
          /\ tx_err' = r.err
    /\ UNCHANGED <<coordinator_state, batch_accounts, enable_poller, poller_vars, call_vars,
                   hash_vars, decode_vars>>

FinalizeBatchRejected(batch_id, now) ==
    /\ IsSome(coordinator_state)
    /\ IsSome(batch_accounts[batch_id])
    /\ LET r == finalize_batch(Unwrap(coordinator_state), Unwrap(batch_accounts[batch_id]), now)
       IN /\ r.err # None
          /\ tx_err' = r.err
    /\ UNCHANGED <<coordinator_state, batch_accounts, enable_poller, poller_vars, call_vars,
                   hash_vars, decode_vars>>

CompleteBatchRejected(batch_id, results_hash, executor) ==
    /\ IsSome(coordinator_state)
    /\ IsSome(batch_accounts[batch_id])
    /\ LET r == complete_batch(Unwrap(coordinator_state), Unwrap(batch_accounts[batch_id]),
                               results_hash, executor)
       IN /\ r.err # None
          /\ tx_err' = r.err
    /\ UNCHANGED <<coordinator_state, batch_accounts, enable_poller, poller_vars, call_vars,
                   hash_vars, decode_vars>>

(***************************************************************************)
(* CoordinatorReader (packages/proxy/src/coordinator/reader.rs).           *)
(***************************************************************************)
\* The record parse_batch_data builds from a Batch account: every field but
\* the bump, the status byte mapped to OnChainBatchStatus, hashes and keys as
\* their 32 bytes.
OnChainBatch(account) ==
    [id |-> account.id,
     status |-> account.status,
     query_count |-> account.query_count,
     query_hashes |-> [i \in 1 .. Len(account.query_hashes) |->
                         HashBytes(account.query_hashes[i])],
     submitters |-> [i \in 1 .. Len(account.submitters) |->
                       PubkeyBytes(account.submitters[i])],
     created_at |-> account.created_at,
     finalized_at |-> account.finalized_at,
     results_hash |-> IF account.results_hash = None THEN None
                      ELSE Some(HashBytes(Unwrap(account.results_hash)))]

\* OnChainBatchStatus of a status byte; None is the `_ => return None` arm.
\* A mutant of parse_status: an unknown byte is read as Executed.
parse_status_lenient(status_byte) ==
    CASE status_byte = 0 -> Some("Pending")
      [] status_byte = 1 -> Some("Finalized")
      [] OTHER -> Some("Executed")

parse_status(status_byte) ==
    CASE status_byte = 0 -> Some("Pending")
      [] status_byte = 1 -> Some("Finalized")
      [] status_byte = 2 -> Some("Executed")
      [] OTHER -> None

\* uN::from_le_bytes / i64::from_le_bytes, for the non-negative values of
\* the model.
RECURSIVE from_le_bytes(_)
from_le_bytes(bytes) ==
    IF bytes = <<>> THEN 0
    ELSE Head(bytes) + 256 * from_le_bytes(Tail(bytes))

\* data[offset..offset + n] and whether that range is inside the slice: an
\* index or a range that is not makes the thread panic.
Slice(data, offset, n) == SubSeq(data, offset + 1, offset + n)
InRange(data, offset, n) == offset + n <= Len(data)

\* How a call ends: it returns a value, or the thread panics.
Returned(v) == [exit |-> "return", value |-> v]
Panicked == [exit |-> "panic", value |-> None]

\* A mutant of ParseVec: `offset += 4` after the length is left out.
ParseVecNoSkip(data, offset) ==
    IF ~InRange(data, offset, 4) THEN Panicked
    ELSE LET len == from_le_bytes(Slice(data, offset, 4))
         IN IF ~InRange(data, offset, 32 * len) THEN Panicked
            ELSE Returned([arrays |-> [i \in 1 .. len |->
                                         Slice(data, offset + 32 * (i - 1), 32)],
                           offset |-> offset + 32 * len])

\* parse_batch_data, the two `Parse ... vec` blocks: the u32 length, then
\* that many 32-byte items; the offset after them.
ParseVec(data, offset) ==
    IF ~InRange(data, offset, 4) THEN Panicked
    ELSE LET len == from_le_bytes(Slice(data, offset, 4))
         IN IF ~InRange(data, offset + 4, 32 * len) THEN Panicked
            ELSE Returned([arrays |-> [i \in 1 .. len |->
                                         Slice(data, offset + 4 + 32 * (i - 1), 32)],
                           offset |-> offset + 4 + 32 * len])

\* A mutant of ParseTail: `offset += 8` after the finalized_at payload is
\* left out.
ParseTailNoAdvance(data, offset) ==
    IF ~InRange(data, offset, 8 + 1) THEN Panicked
    ELSE LET created_at == from_le_bytes(Slice(data, offset, 8))
             has_finalized_at == data[offset + 8 + 1] = 1
             at == offset + 8 + 1
         IN IF has_finalized_at /\ ~InRange(data, at, 8) THEN Panicked
            ELSE LET finalized_at == IF has_finalized_at
                                     THEN Some(from_le_bytes(Slice(data, at, 8)))
                                     ELSE None
                     flag == at
                 IN IF ~InRange(data, flag, 1) THEN Panicked
                    ELSE LET has_results_hash == data[flag + 1] = 1
                         IN IF has_results_hash /\ ~InRange(data, flag + 1, 32) THEN Panicked
                            ELSE Returned([created_at |-> created_at,
                                           finalized_at |-> finalized_at,
                                           results_hash |->
                                               IF has_results_hash
                                               THEN Some(Slice(data, flag + 1, 32))
                                               ELSE None])

\* parse_batch_data from created_at on: the timestamp, then the two options,
\* each a flag byte compared with 1 and a payload read when it is.  Nothing
\* is read after the results_hash.
ParseTail(data, offset) ==
    IF ~InRange(data, offset, 8 + 1) THEN Panicked
    ELSE LET created_at == from_le_bytes(Slice(data, offset, 8))
             has_finalized_at == data[offset + 8 + 1] = 1
             at == offset + 8 + 1
         IN IF has_finalized_at /\ ~InRange(data, at, 8) THEN Panicked
            ELSE LET finalized_at == IF has_finalized_at
                                     THEN Some(from_le_bytes(Slice(data, at, 8)))
                                     ELSE None
                     flag == IF has_finalized_at THEN at + 8 ELSE at
                 IN IF ~InRange(data, flag, 1) THEN Panicked
                    ELSE LET has_results_hash == data[flag + 1] = 1
                         IN IF has_results_hash /\ ~InRange(data, flag + 1, 32) THEN Panicked
                            ELSE Returned([created_at |-> created_at,
                                           finalized_at |-> finalized_at,
                                           results_hash |->
                                               IF has_results_hash
                                               THEN Some(Slice(data, flag + 1, 32))
                                               ELSE None])

\* parse_batch_data: None under 20 bytes or on an unknown status byte; past
\* that every read is unchecked.
parse_batch_data(data) ==
    IF Len(data) < 20 THEN Returned(None)
    ELSE LET id == from_le_bytes(Slice(data, 8, 8))
             status == parse_status(data[16 + 1])
             query_count == data[17 + 1]
         IN IF status = None THEN Returned(None)
            ELSE LET hashes == ParseVec(data, 18)
                 IN IF hashes.exit = "panic" THEN Panicked
                    ELSE LET keys == ParseVec(data, hashes.value.offset)
                         IN IF keys.exit = "panic" THEN Panicked
                            ELSE LET tail == ParseTail(data, keys.value.offset)
                                 IN IF tail.exit = "panic" THEN Panicked
                                    ELSE Returned(Some(
                                           [id |-> id,
                                            status |-> Unwrap(status),
                                            query_count |-> query_count,
                                            query_hashes |-> hashes.value.arrays,
                                            submitters |-> keys.value.arrays,
                                            created_at |-> tail.value.created_at,
                                            finalized_at |-> tail.value.finalized_at,
                                            results_hash |-> tail.value.results_hash]))

\* What RpcClient::get_account answers for an address: the account's data
\* ("ok"), an error ("err"), an account that holds no data ("empty"), or
\* data cut after CutLen bytes ("cut").  A missing account is an error.
CutLen == 20
RpcReads == {"ok", "err", "empty", "cut"}

get_account(account_data, rpc) ==
    IF rpc = "err" \/ account_data = None THEN None
    ELSE IF rpc = "empty" THEN Some(<<>>)
    ELSE IF rpc = "cut" THEN Some(SubSeq(Unwrap(account_data), 1, CutLen))
    ELSE account_data

\* A mutant of get_batch_counter: data that is too short counts as counter 0.
get_batch_counter_or_zero(rpc) ==
    LET account == get_account(IF coordinator_state = None THEN None
                               ELSE Some(CoordinatorAccountData(Unwrap(coordinator_state))),
                               rpc)
    IN IF account = None THEN None
       ELSE IF Len(Unwrap(account)) < 50 THEN Some(0)
       ELSE Some(from_le_bytes(Slice(Unwrap(account), 42, 8)))

\* get_batch_counter: None when the read fails or the data is under 50
\* bytes, else the u64 at data[42..50].
get_batch_counter(rpc) ==
    LET account == get_account(IF coordinator_state = None THEN None
                               ELSE Some(CoordinatorAccountData(Unwrap(coordinator_state))),
                               rpc)
    IN IF account = None THEN None
       ELSE IF Len(Unwrap(account)) < 50 THEN None
       ELSE Some(from_le_bytes(Slice(Unwrap(account), 42, 8)))

\* get_batch: None when the read fails, else parse_batch_data of the data.
get_batch(batch_id, rpc) ==
    LET account == get_account(IF batch_id \notin DOMAIN batch_accounts
                                  \/ batch_accounts[batch_id] = None
                               THEN None
                               ELSE Some(BatchAccountData(Unwrap(batch_accounts[batch_id]))),
                               rpc)
    IN IF account = None THEN Returned(None)
       ELSE parse_batch_data(Unwrap(account))

(***************************************************************************)
(* BatchPoller (packages/proxy/src/coordinator/poller.rs).                 *)
(***************************************************************************)
\* A mutant of NewBatches: the filter on processed_batches is left out.
NewBatchesUnfiltered(found, processed) == found

\* poll_once: the batches of the scan whose id is not in processed_batches.
NewBatches(found, processed) ==
    SelectSeq(found, LAMBDA b : b.id \notin processed)

\* find_finalized_batches, first read: the batch counter.  When it cannot be
\* read the scan returns nothing and poll_once returns at once.
PollReadCounter(rpc) ==
    /\ enable_poller
    /\ poller_pc = "idle"
    /\ LET counter == get_batch_counter(rpc)
       IN IF counter = None
          THEN /\ warned' = TRUE
               /\ UNCHANGED <<poller_pc, scan_counter, scan_i, finalized, probes,
                              new_batches, processed_batches, discovered>>
          ELSE /\ poller_pc' = "scan"
               /\ scan_counter' = Unwrap(counter)
               /\ scan_i' = 0
               /\ finalized' = <<>>
               /\ probes' = <<>>
               /\ UNCHANGED <<warned, new_batches, processed_batches, discovered>>
    /\ UNCHANGED <<ledger_vars, enable_poller, call_vars, hash_vars, decode_vars, lock_vars>>

\* A mutant of push_finalized: the status of the batch is not looked at.
push_any(found, batch) ==
    IF IsSome(batch) THEN Append(found, Unwrap(batch)) ELSE found

\* find_finalized_batches, the body of the loop: the batch is pushed when
\* get_batch returned one and its status is Finalized.
push_finalized(found, batch) ==
    IF IsSome(batch) /\ Unwrap(batch).status = "Finalized"
    THEN Append(found, Unwrap(batch))
    ELSE found

\* find_finalized_batches, one turn of `for i in 0..counter`.  A panic in
\* get_batch unwinds poll_once and ends the task BatchPoller::start spawned.
PollProbe(rpc) ==
    /\ poller_pc = "scan"
    /\ scan_i < scan_counter
    /\ LET batch == get_batch(scan_i, rpc)
       IN /\ probes' = Append(probes, [id |-> scan_i,
                                       status |-> IF IsSome(batch.value)
                                                  THEN Some(Unwrap(batch.value).status)
                                                  ELSE None,
                                       exit |-> batch.exit])
          /\ IF batch.exit = "panic"
             THEN /\ poller_pc' = "panicked"
                  /\ UNCHANGED <<scan_i, finalized>>
             ELSE /\ finalized' = push_finalized(finalized, batch.value)
                  /\ scan_i' = scan_i + 1
                  /\ UNCHANGED poller_pc
    /\ UNCHANGED <<scan_counter, warned, new_batches, processed_batches, discovered>>
    /\ UNCHANGED <<ledger_vars, enable_poller, call_vars, hash_vars, decode_vars, lock_vars>>

\* poll_once after the scan: return when nothing was found, else filter under
\* the read lock.  The locals of find_finalized_batches and the Vec it
\* returned, which only new_batches still refers to, leave the state.
PollFilter ==
    /\ poller_pc = "scan"
    /\ scan_i = scan_counter
    /\ LET fresh == IF finalized = <<>> THEN <<>>
                    ELSE NewBatches(finalized, processed_batches)
       IN /\ new_batches' = fresh
          /\ poller_pc' = IF fresh = <<>> THEN "idle" ELSE "dispatch"
    /\ scan_counter' = 0
    /\ scan_i' = 0
    /\ finalized' = <<>>
    /\ probes' = <<>>
    /\ UNCHANGED <<warned, processed_batches, discovered>>
    /\ UNCHANGED <<ledger_vars, enable_poller, call_vars, hash_vars, decode_vars, lock_vars>>

\* handle_finalized_batch up to the write lock: the batch is surfaced.
PollDiscover ==
    /\ poller_pc = "dispatch"
    /\ LET id == Head(new_batches).id
       IN discovered' = [discovered EXCEPT ![id] = IF @ < MaxDiscover THEN @ + 1 ELSE @]
    /\ poller_pc' = "insert"
    /\ UNCHANGED <<scan_counter, scan_i, finalized, probes, warned, new_batches, processed_batches>>
    /\ UNCHANGED <<ledger_vars, enable_poller, call_vars, hash_vars, decode_vars, lock_vars>>

\* A mutant of insert: the set keeps the last id only.
insert_last_only(processed, batch_id) == {batch_id}

\* HashSet::insert on processed_batches.
insert(processed, batch_id) == processed \cup {batch_id}

\* BatchPoller::is_batch_processed
is_batch_processed(batch_id) == batch_id \in processed_batches

\* A mutant of PollInsert: after the first insert the rest of new_batches is
\* dropped and the cycle ends.
PollInsertDropsRest ==
    /\ poller_pc = "insert"
    /\ processed_batches' = insert(processed_batches, Head(new_batches).id)
    /\ new_batches' = <<>>
    /\ poller_pc' = "idle"
    /\ UNCHANGED <<scan_counter, scan_i, finalized, probes, warned, discovered>>
    /\ UNCHANGED <<ledger_vars, enable_poller, call_vars, hash_vars, decode_vars, lock_vars>>

\* handle_finalized_batch under the write lock: the id is inserted; then the
\* next turn of `for batch in new_batches`, or the sleep.
PollInsert ==
    /\ poller_pc = "insert"
    /\ processed_batches' = insert(processed_batches, Head(new_batches).id)
    /\ new_batches' = Tail(new_batches)
    /\ poller_pc' = IF Tail(new_batches) = <<>> THEN "idle" ELSE "dispatch"
    /\ UNCHANGED <<scan_counter, scan_i, finalized, probes, warned, discovered>>
    /\ UNCHANGED <<ledger_vars, enable_poller, call_vars, hash_vars, decode_vars, lock_vars>>

(***************************************************************************)
(* poll_once and handle_finalized_batch at the grain of the RwLock on      *)
(* processed_batches, with callers of is_batch_processed beside them.  A   *)
(* read guard is granted when no write guard is out, the write guard when  *)
(* no guard is out; which waiter the lock serves first is left open.       *)
(***************************************************************************)
Readers == 1 .. MaxReaders

\* poll_once: `self.processed_batches.read().await` after a scan that found
\* something.
PollReadLock ==
    /\ poller_pc = "scan"
    /\ scan_i = scan_counter
    /\ finalized # <<>>
    /\ poller_guard = "none"
    /\ poller_guard' = "read"
    /\ poller_pc' = "filter"
    /\ UNCHANGED <<scan_counter, scan_i, finalized, probes, warned, new_batches,
                   processed_batches, discovered, reader_guards>>
    /\ UNCHANGED <<ledger_vars, enable_poller, call_vars, hash_vars, decode_vars>>

\* A mutant of PollFilterLocked: drop(processed) is left out, the read guard
\* lives to the end of poll_once.
PollFilterKeepsGuard ==
    /\ poller_pc = "filter"
    /\ new_batches' = NewBatches(finalized, processed_batches)
    /\ poller_pc' = IF new_batches' = <<>> THEN "idle" ELSE "dispatch"
    /\ poller_guard' = IF new_batches' = <<>> THEN "none" ELSE poller_guard
    /\ scan_counter' = 0
    /\ scan_i' = 0
    /\ finalized' = <<>>
    /\ probes' = <<>>
    /\ UNCHANGED <<warned, processed_batches, discovered, reader_guards>>
    /\ UNCHANGED <<ledger_vars, enable_poller, call_vars, hash_vars, decode_vars>>

\* poll_once: the filter under the read guard, then drop(processed).
PollFilterLocked ==
    /\ poller_pc = "filter"
    /\ new_batches' = NewBatches(finalized, processed_batches)
    /\ poller_pc' = IF new_batches' = <<>> THEN "idle" ELSE "dispatch"
    /\ poller_guard' = "none"
    /\ scan_counter' = 0
    /\ scan_i' = 0
    /\ finalized' = <<>>
    /\ probes' = <<>>
    /\ UNCHANGED <<warned, processed_batches, discovered, reader_guards>>
    /\ UNCHANGED <<ledger_vars, enable_poller, call_vars, hash_vars, decode_vars>>

\* handle_finalized_batch: `self.processed_batches.write().await` is granted.
PollWriteLock ==
    /\ poller_pc = "insert"
    /\ poller_guard = "none"
    /\ reader_guards = {}
    /\ poller_guard' = "write"
    /\ poller_pc' = "write"
    /\ UNCHANGED <<scan_counter, scan_i, finalized, probes, warned, new_batches,
                   processed_batches, discovered, reader_guards>>
    /\ UNCHANGED <<ledger_vars, enable_poller, call_vars, hash_vars, decode_vars>>

\* handle_finalized_batch: the insert under the write guard, which the end of
\* the function releases; then the next turn of the loop, or the sleep.
PollInsertLocked ==
    /\ poller_pc = "write"
    /\ processed_batches' = insert(processed_batches, Head(new_batches).id)
    /\ new_batches' = Tail(new_batches)
    /\ poller_pc' = IF Tail(new_batches) = <<>> THEN "idle" ELSE "dispatch"
    /\ poller_guard' = "none"
    /\ UNCHANGED <<scan_counter, scan_i, finalized, probes, warned, discovered, reader_guards>>
    /\ UNCHANGED <<ledger_vars, enable_poller, call_vars, hash_vars, decode_vars>>

\* is_batch_processed: `self.processed_batches.read().await` is granted.
ReaderAcquire(r) ==
    /\ r \notin reader_guards
    /\ poller_guard # "write"
    /\ reader_guards' = reader_guards \cup {r}
    /\ UNCHANGED <<poller_pc, scan_counter, scan_i, finalized, probes, warned, new_batches,
                   processed_batches, discovered, poller_guard>>
    /\ UNCHANGED <<ledger_vars, enable_poller, call_vars, hash_vars, decode_vars>>

\* is_batch_processed: contains() has answered and the temporary guard is
\* dropped at the end of the statement.
ReaderRelease(r) ==
    /\ r \in reader_guards
    /\ reader_guards' = reader_guards \ {r}
    /\ UNCHANGED <<poller_pc, scan_counter, scan_i, finalized, probes, warned, new_batches,
                   processed_batches, discovered, poller_guard>>
    /\ UNCHANGED <<ledger_vars, enable_poller, call_vars, hash_vars, decode_vars>>

(***************************************************************************)
(* Text.  A String is the sequence of its characters, so that the bytes    *)
(* fed to the hasher can be concatenated and compared.                     *)
(***************************************************************************)
DigitChars == <<"0", "1", "2", "3", "4", "5", "6", "7", "8", "9">>

\* u64 / usize to_string: the decimal digits.
RECURSIVE Decimal(_)
Decimal(n) == IF n < 10 THEN <<DigitChars[n + 1]>>
              ELSE Decimal(n \div 10) \o <<DigitChars[(n % 10) + 1]>>

IsDigit(c) == \E d \in 1 .. 10 : DigitChars[d] = c
DigitValue(c) == (CHOOSE d \in 1 .. 10 : DigitChars[d] = c) - 1

RECURSIVE DecimalValue(_)
DecimalValue(chars) ==
    IF chars = <<>> THEN 0
    ELSE 10 * DecimalValue(SubSeq(chars, 1, Len(chars) - 1)) + DigitValue(chars[Len(chars)])

\* str::parse::<u64>: None unless the text is a non-empty run of digits (the
\* model's texts are far below the u64 range; an optional leading '+' is not
\* among the model's inputs).
ParseU64(chars) ==
    IF chars # <<>> /\ \A i \in 1 .. Len(chars) : IsDigit(chars[i])
    THEN Some(DecimalValue(chars))
    ELSE None

(***************************************************************************)
(* serde_json::Value and its compact Display (to_string).                  *)
(***************************************************************************)
JNull == [kind |-> "null"]
JBool(b) == [kind |-> "bool", bool |-> b]
JNumber(n) == [kind |-> "number", number |-> n]
JString(s) == [kind |-> "string", string |-> s]
JArray(items) == [kind |-> "array", items |-> items]
\* An object's fields in the order the map iterates them (sorted by key).
JObject(fields) == [kind |-> "object", fields |-> fields]

RECURSIVE to_string(_), JoinItems(_), JoinFields(_)
\* None of the model's strings holds a character that JSON escapes.
to_string(v) ==
    CASE v.kind = "null" -> <<"n", "u", "l", "l">>
      [] v.kind = "bool" -> IF v.bool THEN <<"t", "r", "u", "e">> ELSE <<"f", "a", "l", "s", "e">>
      [] v.kind = "number" -> Decimal(v.number)
      [] v.kind = "string" -> <<"\"">> \o v.string \o <<"\"">>
      [] v.kind = "array" -> <<"[">> \o JoinItems(v.items) \o <<"]">>
      [] v.kind = "object" -> <<"{">> \o JoinFields(v.fields) \o <<"}">>

JoinItems(items) ==
    IF items = <<>> THEN <<>>
    ELSE IF Len(items) = 1 THEN to_string(items[1])
    ELSE to_string(items[1]) \o <<",">> \o JoinItems(Tail(items))

JoinFields(fields) ==
    IF fields = <<>> THEN <<>>
    ELSE LET f == <<"\"">> \o fields[1][1] \o <<"\"", ":">> \o to_string(fields[1][2])
         IN IF Len(fields) = 1 THEN f ELSE f \o <<",">> \o JoinFields(Tail(fields))

\* Value::as_str and Value::as_array
as_str(v) == IF v.kind = "string" THEN Some(v.string) ELSE None
as_array(v) == IF v.kind = "array" THEN Some(v.items) ELSE None

(***************************************************************************)
(* QueryResult (types/query_result.rs).                                    *)
(***************************************************************************)
\* QueryResult::success
success(id, data) ==
    [id |-> id, data |-> Some(data), success |-> TRUE, error |-> None]

\* A mutant of failure: the message is dropped and only the flag says that
\* the query failed.
failure_without_error(id, error) ==
    [id |-> id, data |-> None, success |-> FALSE, error |-> None]

\* QueryResult::failure
failure(id, error) ==
    [id |-> id, data |-> None, success |-> FALSE, error |-> Some(error)]

(***************************************************************************)
(* The backing RPC endpoint: what it answers when the call goes through.   *)
(***************************************************************************)
PK1 == <<"p", "k", "1">>                  \* a base58 pubkey of an existing account
PK2 == <<"p", "k", "2">>                  \* a base58 pubkey with no account
SIG1 == <<"s", "i", "g", "1">>            \* a base58 transaction signature
JUNK == <<"j", "u", "n", "k">>            \* neither a pubkey nor a signature

\* Pubkey::from_str and Signature::from_str: Ok or Err.
ParsesAsPubkey(s) == s \in {PK1, PK2}
ParsesAsSignature(s) == s \in {SIG1}

RpcAccounts == (PK1 :> Some([lamports |-> 5, owner |-> <<"S", "y", "s">>,
                             executable |-> FALSE, rent_epoch |-> 0, data_len |-> 0]))
               @@ (PK2 :> None)
RpcBalance(pubkey) == IF IsSome(RpcAccounts[pubkey]) THEN Unwrap(RpcAccounts[pubkey]).lamports ELSE 0
RpcBlockHeight == 42
RpcTransaction == JObject(<<<< <<"s", "l", "o", "t">>, JNumber(9) >>>>)
RpcTokenAmount == JObject(<<<< <<"a", "m", "o", "u", "n", "t">>, JString(<<"1">>) >>>>)

\* The json! object the account executors build.
AccountJson(account) ==
    JObject(<< << <<"d", "a", "t", "a", "L", "e", "n", "g", "t", "h">>, JNumber(account.data_len) >>,
               << <<"e", "x", "e", "c", "u", "t", "a", "b", "l", "e">>, JBool(account.executable) >>,
               << <<"l", "a", "m", "p", "o", "r", "t", "s">>, JNumber(account.lamports) >>,
               << <<"o", "w", "n", "e", "r">>, JString(account.owner) >>,
               << <<"r", "e", "n", "t", "E", "p", "o", "c", "h">>, JNumber(account.rent_epoch) >> >>)

(***************************************************************************)
(* The per-method executors (packages/proxy/src/executor).  `rpc` is "ok"  *)
(* when the RPC call goes through and "err" when it fails.                 *)
(***************************************************************************)
\* Query::get_primary_param
get_primary_param(query) ==
    IF IsSome(query.pubkey) THEN query.pubkey
    ELSE IF IsSome(query.params) THEN as_str(Unwrap(query.params))
    ELSE None

execute_get_balance(query_id, pubkey, rpc) ==
    IF rpc = "ok"
    THEN success(query_id, JObject(<<<< <<"l", "a", "m", "p", "o", "r", "t", "s">>,
                                        JNumber(RpcBalance(pubkey)) >>>>))
    ELSE failure(query_id, <<"client error">>)

execute_get_account_info(query_id, pubkey, rpc) ==
    IF rpc = "ok" /\ IsSome(RpcAccounts[pubkey])
    THEN success(query_id, AccountJson(Unwrap(RpcAccounts[pubkey])))
    ELSE IF rpc = "ok"
    THEN success(query_id, JNull)          \* the error text holds "AccountNotFound"
    ELSE failure(query_id, <<"client error">>)

\* A mutant of execute_get_transaction: the signature is sent to the RPC
\* without being parsed first.
execute_get_transaction_unparsed(query, rpc) ==
    LET signature_str == get_primary_param(query)
    IN IF signature_str = None
       THEN failure(query.id, <<"Missing transaction signature">>)
       ELSE IF rpc = "ok"
       THEN success(query.id, RpcTransaction)
       ELSE failure(query.id, <<"RPC error: ", "client error">>)

execute_get_transaction(query, rpc) ==
    LET signature_str == get_primary_param(query)
    IN IF signature_str = None
       THEN failure(query.id, <<"Missing transaction signature">>)
       ELSE IF ~ParsesAsSignature(Unwrap(signature_str))
       THEN failure(query.id, <<"Invalid signature: ", "parse error">>)
       ELSE IF rpc = "ok"
       THEN success(query.id, RpcTransaction)
       ELSE failure(query.id, <<"RPC error: ", "client error">>)

execute_get_token_account_balance(query, rpc) ==
    LET pubkey_str == get_primary_param(query)
    IN IF pubkey_str = None
       THEN failure(query.id, <<"Missing token account pubkey">>)
       ELSE IF ~ParsesAsPubkey(Unwrap(pubkey_str))
       THEN failure(query.id, <<"Invalid pubkey: ", "parse error">>)
       ELSE IF rpc = "ok"
       THEN success(query.id, RpcTokenAmount)
       ELSE failure(query.id, <<"RPC error: ", "client error">>)

execute_get_block_height(query, rpc) ==
    IF rpc = "ok"
    THEN success(query.id, JNumber(RpcBlockHeight))
    ELSE failure(query.id, <<"RPC error: ", "client error">>)

\* The strings of a JSON array, the other elements dropped (filter_map).
StringsOf(items) ==
    LET strs == SelectSeq(items, LAMBDA v : v.kind = "string")
    IN [i \in 1 .. Len(strs) |-> strs[i].string]

execute_get_multiple_accounts(query, rpc) ==
    IF query.params = None
    THEN failure(query.id, <<"Missing pubkeys parameter">>)
    ELSE LET params == Unwrap(query.params)
         IN IF as_array(params) = None /\ as_str(params) = None
            THEN failure(query.id, <<"Invalid params format, expected array of strings">>)
            ELSE LET pubkeys_str == IF IsSome(as_array(params))
                                    THEN StringsOf(Unwrap(as_array(params)))
                                    ELSE <<Unwrap(as_str(params))>>
                 IN IF pubkeys_str = <<>>
                    THEN failure(query.id, <<"Empty pubkeys array">>)
                    ELSE IF \E i \in 1 .. Len(pubkeys_str) : ~ParsesAsPubkey(pubkeys_str[i])
                    THEN failure(query.id, <<"Invalid pubkey '", "parse error">>)
                    ELSE IF rpc = "ok"
                    THEN success(query.id,
                                 JArray([i \in 1 .. Len(pubkeys_str) |->
                                            IF IsSome(RpcAccounts[pubkeys_str[i]])
                                            THEN AccountJson(Unwrap(RpcAccounts[pubkeys_str[i]]))
                                            ELSE JNull]))
                    ELSE failure(query.id, <<"RPC error: ", "client error">>)

\* execute_single_query: the dispatch on the method, with the legacy pubkey
\* path of getBalance and getAccountInfo.
execute_single_query(query, rpc) ==
    CASE query.method \in {"GetBalance", "GetAccountInfo"} ->
            IF query.pubkey = None
            THEN failure(query.id, <<"Missing pubkey parameter">>)
            ELSE IF ~ParsesAsPubkey(Unwrap(query.pubkey))
            THEN failure(query.id, <<"Invalid pubkey '", "parse error">>)
            ELSE IF query.method = "GetBalance"
            THEN execute_get_balance(query.id, Unwrap(query.pubkey), rpc)
            ELSE execute_get_account_info(query.id, Unwrap(query.pubkey), rpc)
      [] query.method = "GetTransaction" -> execute_get_transaction(query, rpc)
      [] query.method = "GetTokenAccountBalance" -> execute_get_token_account_balance(query, rpc)
      [] query.method = "GetBlockHeight" -> execute_get_block_height(query, rpc)
      [] query.method = "GetMultipleAccounts" -> execute_get_multiple_accounts(query, rpc)

(***************************************************************************)
(* BatchResponse::from_results (types/batch_response.rs).                  *)
(***************************************************************************)
\* A mutant of ResultBytes: the error message is hashed as well.
ResultBytesWithError(result) ==
    result.id \o (IF result.success THEN <<"1">> ELSE <<"0">>)
              \o (IF IsSome(result.data) THEN to_string(Unwrap(result.data)) ELSE <<>>)
              \o (IF IsSome(result.error) THEN Unwrap(result.error) ELSE <<>>)

\* The bytes one result feeds to the hasher: id, then b"1" or b"0", then the
\* data's text when there is data.
ResultBytes(result) ==
    result.id \o (IF result.success THEN <<"1">> ELSE <<"0">>)
              \o (IF IsSome(result.data) THEN to_string(Unwrap(result.data)) ELSE <<>>)

\* The hasher's input: successive update() calls concatenate.
RECURSIVE HashMaterial(_)
HashMaterial(rs) ==
    IF rs = <<>> THEN <<>> ELSE ResultBytes(Head(rs)) \o HashMaterial(Tail(rs))

\* hex::encode(Sha256::digest(bytes)): SHA-256 is taken to be collision free,
\* so a digest is identified by the bytes it was computed from.
Sha256Hex(bytes) == [sha256 |-> bytes]

\* A mutant of from_results: success is set when some query succeeded.
from_results_any_success(rs, execution_time_ms) ==
    LET succeeded_count == Cardinality({i \in 1 .. Len(rs) : rs[i].success})
        failed_count == Len(rs) - succeeded_count
    IN [results |-> rs,
        success |-> (succeeded_count > 0),
        execution_time_ms |-> execution_time_ms,
        succeeded_count |-> succeeded_count,
        failed_count |-> failed_count,
        batch_hash |-> Sha256Hex(HashMaterial(rs))]

from_results(rs, execution_time_ms) ==
    LET succeeded_count == Cardinality({i \in 1 .. Len(rs) : rs[i].success})
        failed_count == Len(rs) - succeeded_count
    IN [results |-> rs,
        success |-> (failed_count = 0),
        execution_time_ms |-> execution_time_ms,
        succeeded_count |-> succeeded_count,
        failed_count |-> failed_count,
        batch_hash |-> Sha256Hex(HashMaterial(rs))]

(***************************************************************************)
(* The /execute-batch handler (handlers/execute_batch.rs) and              *)
(* BatchExecutor::execute_batch (executor/mod.rs).                         *)
(***************************************************************************)
\* types/config.rs
MAX_BATCH_SIZE == 100

\* The id the join loop gives the result of a task that panicked or was cancelled.
UNKNOWN == <<"u", "n", "k", "n", "o", "w", "n">>

Ok(v) == [value |-> v, ok |-> TRUE]
Err(e) == [ok |-> FALSE, error |-> e]

\* A mutant of VerifyBatch: a batch the poller has already surfaced is refused.
VerifyBatchUnsurfacedOnly(req, coordinator, rpc_ok) ==
    IF req.batch_id = None \/ ~coordinator
    THEN Ok("unchecked")
    ELSE LET batch_id == ParseU64(Unwrap(req.batch_id))
         IN IF batch_id = None
            THEN Err([kind |-> "InvalidQuery", msg |-> "Invalid batch_id"])
            ELSE LET batch == get_batch(Unwrap(batch_id), IF rpc_ok THEN "ok" ELSE "err").value
                 IN IF batch = None
                    THEN Err([kind |-> "InvalidQuery", msg |-> "Batch not found on-chain"])
                    ELSE IF Unwrap(batch).status # "Finalized"
                            \/ Unwrap(batch_id) \in processed_batches
                    THEN Err([kind |-> "InvalidQuery", msg |-> "Batch is not finalized"])
                    ELSE Ok("verified")

\* The handler's on-chain check: Ok, or the InvalidQuery error it returns.
\* It runs only when the request names a batch and AppState.coordinator is Some.
VerifyBatch(req, coordinator, rpc_ok) ==
    IF req.batch_id = None \/ ~coordinator
    THEN Ok("unchecked")
    ELSE LET batch_id == ParseU64(Unwrap(req.batch_id))
         IN IF batch_id = None
            THEN Err([kind |-> "InvalidQuery", msg |-> "Invalid batch_id"])
            ELSE LET batch == get_batch(Unwrap(batch_id), IF rpc_ok THEN "ok" ELSE "err").value
                 IN IF batch = None
                    THEN Err([kind |-> "InvalidQuery", msg |-> "Batch not found on-chain"])
                    ELSE IF Unwrap(batch).status # "Finalized"
                    THEN Err([kind |-> "InvalidQuery", msg |-> "Batch is not finalized"])
                    ELSE Ok("verified")

\* A mutant of ValidateBatch: the ceiling is compared with >= (off by one).
ValidateBatchOffByOne(req) ==
    IF Len(req.queries) = 0
    THEN Err([kind |-> "EmptyBatch"])
    ELSE IF Len(req.queries) >= MAX_BATCH_SIZE
    THEN Err([kind |-> "BatchTooLarge", actual |-> Len(req.queries), max |-> MAX_BATCH_SIZE])
    ELSE Ok("admitted")

\* execute_batch, validation: EmptyBatch, BatchTooLarge, or admitted.
ValidateBatch(req) ==
    IF Len(req.queries) = 0
    THEN Err([kind |-> "EmptyBatch"])
    ELSE IF Len(req.queries) > MAX_BATCH_SIZE
    THEN Err([kind |-> "BatchTooLarge", actual |-> Len(req.queries), max |-> MAX_BATCH_SIZE])
    ELSE Ok("admitted")

\* A mutant of SpawnTasks: only the first query's task is spawned before the
\* join loop starts.
SpawnTasksFirstOnly(queries) ==
    [i \in 1 .. 1 |->
        [state |-> "running", rpc |-> None, query |-> queries[i], result |-> None]]

\* execute_batch, spawning: one spawn_blocking task per query, in request order.
SpawnTasks(queries) ==
    [i \in 1 .. Len(queries) |->
        [state |-> "running", rpc |-> None, query |-> queries[i], result |-> None]]

\* A mutant of NextHandle: the handles are awaited last to first.
NextHandleReversed(joined, spawned) == Len(spawned) - Len(joined)

\* The handle the join loop awaits next: `for handle in handles`.
NextHandle(joined, spawned) == Len(joined) + 1

\* A mutant of JoinResult: the JoinError is dropped and the task's place is
\* filled with an empty success.
JoinResultPanicMasked(handle) ==
    IF handle.state = "finished"
    THEN Unwrap(handle.result)
    ELSE success(UNKNOWN, JNull)

\* What the join loop pushes for a finished handle.
JoinResult(handle) ==
    IF handle.state = "finished"
    THEN Unwrap(handle.result)
    ELSE failure(UNKNOWN, <<"Task execution failed: ", "join error">>)

\* A mutant of ExecuteBatchReturn: a failed query fails the whole call.
ExecuteBatchReturnStrict(rs, execution_time_ms) ==
    IF \E i \in 1 .. Len(rs) : ~rs[i].success
    THEN Err([kind |-> "RpcError"])
    ELSE Ok(from_results(rs, execution_time_ms))

\* A mutant of ExecuteBatchReturn: a batch_hash the client supplied is echoed
\* in the response instead of the computed one.
ExecuteBatchReturnClientHash(rs, execution_time_ms) ==
    IF IsSome(request) /\ IsSome(Unwrap(request).batch_hash)
    THEN Ok([from_results(rs, execution_time_ms)
                EXCEPT !.batch_hash = Unwrap(Unwrap(request).batch_hash)])
    ELSE Ok(from_results(rs, execution_time_ms))

\* What execute_batch returns once every handle is joined.
ExecuteBatchReturn(rs, execution_time_ms) == Ok(from_results(rs, execution_time_ms))

\* The ledger account a request's batch_id names, for the history variable.
NamedAccount(req) ==
    IF req.batch_id = None \/ ParseU64(Unwrap(req.batch_id)) = None
       \/ Unwrap(ParseU64(Unwrap(req.batch_id))) \notin DOMAIN batch_accounts
    THEN None
    ELSE batch_accounts[Unwrap(ParseU64(Unwrap(req.batch_id)))]

\* One request arrives: the handler's on-chain check, then execute_batch up to
\* the end of the spawning (there is no suspension point in between).
HandleExecuteBatch(req, rpc_ok) ==
    /\ call_pc = "idle"
    /\ request' = Some(req)
    /\ checked' = NamedAccount(req)
    /\ results' = <<>>
    /\ finish_order' = <<>>
    /\ LET verified == VerifyBatch(req, enable_poller, rpc_ok)
           admitted == ValidateBatch(req)
       IN IF ~verified.ok
          THEN /\ outcome' = Some(Err(verified.error))
               /\ handles' = <<>>
               /\ call_pc' = "returned"
          ELSE IF ~admitted.ok
          THEN /\ outcome' = Some(Err(admitted.error))
               /\ handles' = <<>>
               /\ call_pc' = "returned"
          ELSE /\ outcome' = None
               /\ handles' = SpawnTasks(req.queries)
               /\ call_pc' = "joining"
    /\ UNCHANGED <<ledger_vars, enable_poller, poller_vars, hash_vars, decode_vars>>

\* A spawned task runs execute_single_query to its end.
TaskRun(i, rpc) ==
    /\ i \in 1 .. Len(handles)
    /\ handles[i].state = "running"
    /\ handles' = [handles EXCEPT ![i] =
                      [state |-> "finished",
                       rpc |-> Some(rpc),
                       query |-> handles[i].query,
                       result |-> Some(execute_single_query(handles[i].query, rpc))]]
    /\ finish_order' = Append(finish_order, i)
    /\ UNCHANGED <<call_pc, request, results, outcome, checked>>
    /\ UNCHANGED <<ledger_vars, enable_poller, poller_vars, hash_vars, decode_vars>>

\* A spawned task panics (or is cancelled): its handle yields a JoinError.
TaskPanic(i) ==
    /\ i \in 1 .. Len(handles)
    /\ handles[i].state = "running"
    /\ handles' = [handles EXCEPT ![i].state = "panicked"]
    /\ finish_order' = Append(finish_order, i)
    /\ UNCHANGED <<call_pc, request, results, outcome, checked>>
    /\ UNCHANGED <<ledger_vars, enable_poller, poller_vars, hash_vars, decode_vars>>

\* A mutant of JoinNext: the loop does not wait for the handle, a task still
\* running is given up and its place filled as for a JoinError.
JoinNextNoAwait ==
    /\ call_pc = "joining"
    /\ Len(results) < Len(handles)
    /\ LET h == NextHandle(results, handles)
       IN /\ h \in 1 .. Len(handles)
          /\ results' = Append(results, JoinResult(handles[h]))
    /\ UNCHANGED <<call_pc, request, handles, outcome, checked, finish_order>>
    /\ UNCHANGED <<ledger_vars, enable_poller, poller_vars, hash_vars, decode_vars>>

\* One turn of the join loop: `handle.await` returns and the result is pushed.
JoinNext ==
    /\ call_pc = "joining"
    /\ Len(results) < Len(handles)
    /\ LET h == NextHandle(results, handles)
       IN /\ h \in 1 .. Len(handles)
          /\ handles[h].state # "running"
          /\ results' = Append(results, JoinResult(handles[h]))
    /\ UNCHANGED <<call_pc, request, handles, outcome, checked, finish_order>>
    /\ UNCHANGED <<ledger_vars, enable_poller, poller_vars, hash_vars, decode_vars>>

\* After the join loop: the elapsed time is read and the response is built.
ExecuteBatchDone(execution_time_ms) ==
    /\ call_pc = "joining"
    /\ Len(results) = Len(handles)
    /\ outcome' = Some(ExecuteBatchReturn(results, execution_time_ms))
    /\ call_pc' = "returned"
    /\ UNCHANGED <<request, handles, results, checked, finish_order>>
    /\ UNCHANGED <<ledger_vars, enable_poller, poller_vars, hash_vars, decode_vars>>

\* The response has been sent; the handler serves the next request.
CallReset ==
    /\ call_pc = "returned"
    /\ call_pc' = "idle"
    /\ request' = None
    /\ handles' = <<>>
    /\ results' = <<>>
    /\ outcome' = None
    /\ checked' = None
    /\ finish_order' = <<>>
    /\ UNCHANGED <<ledger_vars, enable_poller, poller_vars, hash_vars, decode_vars>>

\* from_results is called on its own, with any result sequence and time.
FromResultsCall(k, rs, execution_time_ms) ==
    /\ hash_in[k] = None
    /\ hash_in' = [hash_in EXCEPT ![k] = Some([results |-> rs, execution_time_ms |-> execution_time_ms])]
    /\ hash_out' = [hash_out EXCEPT ![k] = Some(from_results(rs, execution_time_ms))]
    /\ UNCHANGED <<ledger_vars, enable_poller, poller_vars, call_vars, decode_vars>>

(***************************************************************************)
(* Initial states.                                                         *)
(***************************************************************************)
InitLedger ==
    /\ coordinator_state = None
    /\ tx_err = None
    /\ batch_accounts = [i \in BatchIds |-> None]

InitPoller ==
    /\ poller_pc = "idle"
    /\ scan_counter = 0
    /\ scan_i = 0
    /\ finalized = <<>>
    /\ probes = <<>>
    /\ warned = FALSE
    /\ new_batches = <<>>
    /\ processed_batches = {}
    /\ discovered = [i \in BatchIds |-> 0]
    /\ poller_guard = "none"
    /\ reader_guards = {}

InitCall ==
    /\ call_pc = "idle"
    /\ request = None
    /\ handles = <<>>
    /\ results = <<>>
    /\ outcome = None
    /\ checked = None
    /\ finish_order = <<>>

InitHashHarness ==
    /\ hash_in = [k \in 1 .. 2 |-> None]
    /\ hash_out = [k \in 1 .. 2 |-> None]

InitDecodeHarness ==
    /\ decode_in = None
    /\ decode_out = None

Init ==
    /\ enable_poller \in BOOLEAN
    /\ InitLedger
    /\ InitPoller
    /\ InitCall
    /\ InitHashHarness
    /\ InitDecodeHarness

\* The proxy started without ENABLE_POLLER (the default of main.rs).
InitPollerOff ==
    /\ enable_poller = FALSE
    /\ InitLedger
    /\ InitPoller
    /\ InitCall
    /\ InitHashHarness
    /\ InitDecodeHarness

(***************************************************************************)
(* Spec: the ledger and the poller.                                        *)
(***************************************************************************)
LedgerStep ==
    \/ \E a \in Authorities, p \in SizePairs : Initialize(a, p[1], p[2])
    \/ \E now \in Clock : CreateBatch(now)
    \/ \E id \in BatchIds, s \in Submitters :
          /\ IsSome(batch_accounts[id])
          /\ SubmitQuery(id, FreshHash(Unwrap(batch_accounts[id])), s)
    \/ \E id \in BatchIds, now \in Clock : FinalizeBatch(id, now)
    \/ \E id \in BatchIds, h \in ResultHashes, e \in Keys : CompleteBatch(id, h, e)

PollerStep ==
    \/ \E rpc \in RpcReads : PollReadCounter(rpc)
    \/ \E rpc \in RpcReads : PollProbe(rpc)
    \/ PollFilter
    \/ PollDiscover
    \/ PollInsert

Next == LedgerStep \/ PollerStep

Spec == Init /\ [][Next]_vars

(***************************************************************************)
(* The requests the specifications below send.                             *)
(***************************************************************************)
Query(id, method, pubkey, params) ==
    [id |-> id, pubkey |-> pubkey, params |-> params, method |-> method, commitment |-> None]

BatchRequest(queries, batch_hash, batch_id) ==
    [batch_id |-> batch_id, batch_hash |-> batch_hash, queries |-> queries]

\* Sequences over S of length 0 .. n.
SeqsUpTo(S, n) == UNION {[1 .. k -> S] : k \in 0 .. n}

QuerySamples ==
    { Query(<<"a">>, "GetBalance", Some(PK1), None),
      Query(<<"b">>, "GetBalance", Some(JUNK), None),
      Query(<<"a">>, "GetAccountInfo", None, Some(JString(PK1))),
      Query(<<"b">>, "GetAccountInfo", Some(PK2), None),
      Query(<<"a">>, "GetTransaction", None, Some(JString(JUNK))),
      Query(<<"b">>, "GetTransaction", Some(SIG1), None),
      Query(<<"a">>, "GetTokenAccountBalance", None, Some(JNumber(1))),
      Query(<<"b">>, "GetBlockHeight", None, None),
      Query(<<"a">>, "GetMultipleAccounts", None, Some(JArray(<<>>))),
      Query(<<"b">>, "GetMultipleAccounts", None, Some(JArray(<<JString(PK1), JString(JUNK)>>))),
      Query(<<"a">>, "GetMultipleAccounts", None, Some(JArray(<<JNumber(1), JString(PK2)>>))),
      Query(<<"b">>, "GetMultipleAccounts", None, None) }

\* The request of test_batch_executor_validates_batch_size, with n queries.
UniformRequest(n) ==
    BatchRequest([i \in 1 .. n |-> Query(Decimal(i), "GetBalance", Some(PK1), None)], None, None)

HandlerRequests ==
    { BatchRequest(qs, None, id) :
        qs \in { <<Query(<<"a">>, "GetBlockHeight", None, None)>>,
                 <<Query(<<"a">>, "GetBlockHeight", None, None),
                   Query(<<"b">>, "GetBalance", Some(JUNK), None)>> },
        id \in {None, Some(<<"0">>), Some(<<"1">>), Some(<<"x">>)} }
    \cup {UniformRequest(MAX_BATCH_SIZE + 1)}

RpcOutcomes == {"ok", "err"}
Times == {0, 50}

CallStep ==
    \/ \E i \in 1 .. Len(handles), rpc \in RpcOutcomes : TaskRun(i, rpc)
    \/ \E i \in 1 .. Len(handles) : TaskPanic(i)
    \/ JoinNext
    \/ \E t \in Times : ExecuteBatchDone(t)
    \/ CallReset

(***************************************************************************)
(* SpecHandler: the ledger and the /execute-batch handler.                 *)
(***************************************************************************)
NextHandler ==
    \/ LedgerStep
    \/ \E req \in HandlerRequests, rpc_ok \in BOOLEAN : HandleExecuteBatch(req, rpc_ok)
    \/ CallStep

SpecHandler == Init /\ [][NextHandler]_vars

(***************************************************************************)
(* SpecExec: execute_batch over requests of up to MaxQueries queries.      *)
(***************************************************************************)
\* The queries of which the longer requests are made: three that reach the
\* RPC and three that fail before it.
CoreQueries ==
    { Query(<<"a">>, "GetBalance", Some(PK1), None),
      Query(<<"b">>, "GetAccountInfo", Some(PK2), None),
      Query(<<"a">>, "GetTokenAccountBalance", None, Some(JNumber(1))),
      Query(<<"a">>, "GetTransaction", None, Some(JString(JUNK))),
      Query(<<"b">>, "GetBlockHeight", None, None),
      Query(<<"b">>, "GetMultipleAccounts", None, Some(JArray(<<JString(PK1), JString(JUNK)>>))) }

\* Every sample query alone, every pair of sample queries, and every sequence
\* of up to MaxQueries core queries.
ExecRequests ==
    {<<q>> : q \in QuerySamples}
    \cup {<<p, q>> : p \in QuerySamples, q \in QuerySamples}
    \cup SeqsUpTo(CoreQueries, MaxQueries)

NextExec ==
    \/ \E qs \in ExecRequests :
          HandleExecuteBatch(BatchRequest(qs, None, None), TRUE)
    \/ CallStep

SpecExec == InitPollerOff /\ [][NextExec]_vars

(***************************************************************************)
(* SpecAdmit: the admission control of execute_batch, over request         *)
(* lengths around MAX_BATCH_SIZE.                                          *)
(***************************************************************************)
NextAdmit ==
    \/ \E n \in 0 .. MaxRequestLen : HandleExecuteBatch(UniformRequest(n), TRUE)
    \/ CallReset

SpecAdmit == InitPollerOff /\ [][NextAdmit]_vars

(***************************************************************************)
(* SpecHash: two independent calls of from_results.                        *)
(***************************************************************************)
ResultSamples ==
    { success(<<"a">>, JNull),
      success(<<"a">>, JNumber(1)),
      failure(<<"a">>, <<"e1">>),
      failure(<<"a">>, <<"e2">>),
      failure(<<"a", "0", "a">>, <<"e1">>) }

NextHash ==
    \E k \in 1 .. 2, rs \in SeqsUpTo(ResultSamples, MaxResults), t \in Times :
        FromResultsCall(k, rs, t)

SpecHash == InitPollerOff /\ [][NextHash]_vars

(***************************************************************************)
(* Claims.                                                                 *)
(***************************************************************************)
\* C1 (Spec): over any poll cycles of one BatchPoller and any ledger
\* evolution, handle_finalized_batch is invoked at most once per batch id, and
\* an id that is in processed_batches has been discovered exactly once: no
\* later poll_once discovers it again.
C1_DiscoveryAtMostOnce ==
    \A id \in BatchIds :
        /\ discovered[id] <= 1
        /\ id \in processed_batches => discovered[id] = 1

\* A later cycle has scanned the ledger and found a finalized batch whose id
\* is already in processed_batches.
C1_Witness ==
    /\ poller_pc = "scan"
    /\ scan_i = scan_counter
    /\ \E i \in 1 .. Len(finalized) : finalized[i].id \in processed_batches

\* C2 (SpecHandler): every execute-batch request that carries a batch id
\* fails with the invalid-request error, no query dispatched, unless the
\* ledger batch of that id exists and is Finalized when the handler checks.
C2_BatchIdAlwaysVerified ==
    (/\ call_pc # "idle"
     /\ IsSome(request)
     /\ IsSome(Unwrap(request).batch_id)
     /\ ~(IsSome(checked) /\ Unwrap(checked).status = "Finalized"))
    => /\ call_pc = "returned"
       /\ handles = <<>>
       /\ IsSome(outcome)
       /\ ~Unwrap(outcome).ok
       /\ Unwrap(outcome).error.kind = "InvalidQuery"

\* C3 (SpecAdmit): execute_batch rejects a request of 0 queries with
\* EmptyBatch and a request of more than 100 queries with
\* BatchTooLarge{actual, max = 100}, in both cases with no task spawned; a
\* request of 1 to 100 queries is admitted and one task per query is spawned.
C3_AdmissionControl ==
    (call_pc # "idle" /\ IsSome(request)) =>
        LET n == Len(Unwrap(request).queries)
        IN /\ n = 0 =>
                /\ call_pc = "returned"
                /\ handles = <<>>
                /\ outcome = Some(Err([kind |-> "EmptyBatch"]))
           /\ n > 100 =>
                /\ call_pc = "returned"
                /\ handles = <<>>
                /\ outcome = Some(Err([kind |-> "BatchTooLarge", actual |-> n, max |-> 100]))
           /\ n \in 1 .. 100 =>
                /\ call_pc = "joining"
                /\ Len(handles) = n
                /\ outcome = None

\* The request of 101 queries has been rejected.
C3_Witness ==
    /\ call_pc = "returned"
    /\ IsSome(request)
    /\ Len(Unwrap(request).queries) = 101
    /\ IsSome(outcome)
    /\ ~Unwrap(outcome).ok
    /\ Unwrap(outcome).error.kind = "BatchTooLarge"

\* C4 (SpecHandler): a call that returns an error has spawned no task, and a
\* call that has spawned a task returns Ok with a BatchResponse holding one
\* result per task, whatever the tasks did.
C4_ErrorsOnlyBeforeDispatch ==
    /\ (IsSome(outcome) /\ ~Unwrap(outcome).ok) => handles = <<>>
    /\ (call_pc = "returned" /\ handles # <<>>) =>
            /\ IsSome(outcome)
            /\ Unwrap(outcome).ok
            /\ Len(Unwrap(outcome).value.results) = Len(handles)

\* A call has returned Ok although one of its tasks panicked and another
\* produced a failure.
C4_Witness ==
    /\ call_pc = "returned"
    /\ IsSome(outcome)
    /\ Unwrap(outcome).ok
    /\ \E i \in 1 .. Len(handles) : handles[i].state = "panicked"
    /\ \E i \in 1 .. Len(handles) :
          handles[i].state = "finished" /\ ~Unwrap(handles[i].result).success

\* C5 (SpecExec): for every order in which the tasks of one call finish, the
\* response holds one result per request query, and its i-th result is the
\* outcome of the i-th request query: what execute_single_query gives for
\* that query under the RPC outcome its task met, or a failure when its task
\* panicked.
C5_RequestOrderPreserved ==
    (call_pc = "returned" /\ IsSome(outcome) /\ Unwrap(outcome).ok) =>
        LET queries == Unwrap(request).queries
            rs == Unwrap(outcome).value.results
        IN /\ Len(rs) = Len(queries)
           /\ \A i \in 1 .. Len(queries) :
                 /\ handles[i].query = queries[i]
                 /\ handles[i].state = "finished" =>
                        rs[i] = execute_single_query(queries[i], Unwrap(handles[i].rpc))
                 /\ handles[i].state = "panicked" => ~rs[i].success

\* A call of two queries with different ids has returned, and the task of
\* the second query finished before the task of the first.
C5_Witness ==
    /\ call_pc = "returned"
    /\ IsSome(outcome)
    /\ Unwrap(outcome).ok
    /\ finish_order = <<2, 1>>
    /\ Unwrap(request).queries[1].id # Unwrap(request).queries[2].id
    /\ Unwrap(outcome).value.results[1] # Unwrap(outcome).value.results[2]

\* C6 (SpecExec): when the task of query i panicked or was cancelled, the
\* call still returns Ok, position i holds a Failure tagged with the sentinel
\* id "unknown" (the join loop holds only the JoinError, never the id of the
\* query, which was moved into the task), and every other position holds the
\* result its own task produced.
C6_PanicIsLocalFailure ==
    (call_pc = "returned" /\ \E i \in 1 .. Len(handles) : handles[i].state = "panicked") =>
        /\ IsSome(outcome)
        /\ Unwrap(outcome).ok
        /\ LET rs == Unwrap(outcome).value.results
           IN /\ Len(rs) = Len(handles)
              /\ \A i \in 1 .. Len(handles) :
                    IF handles[i].state = "panicked"
                    THEN /\ rs[i].id = UNKNOWN
                         /\ ~rs[i].success
                         /\ rs[i].data = None
                         /\ IsSome(rs[i].error)
                    ELSE rs[i] = Unwrap(handles[i].result)

\* A call has returned after the task of its first query panicked and the
\* task of its second query produced a success.
C6_Witness ==
    /\ call_pc = "returned"
    /\ Len(handles) = 2
    /\ handles[1].state = "panicked"
    /\ handles[2].state = "finished"
    /\ Unwrap(handles[2].result).success

\* The target parameter of a query is missing or malformed: no pubkey, no
\* signature, or no list of pubkeys is given, a given one does not parse, or
\* the list of pubkey strings is empty.
Malformed(q) ==
    CASE q.method \in {"GetBalance", "GetAccountInfo"} ->
            q.pubkey = None \/ ~ParsesAsPubkey(Unwrap(q.pubkey))
      [] q.method = "GetTransaction" ->
            LET target == IF IsSome(q.pubkey) THEN q.pubkey
                          ELSE IF IsSome(q.params) /\ Unwrap(q.params).kind = "string"
                          THEN Some(Unwrap(q.params).string)
                          ELSE None
            IN target = None \/ ~ParsesAsSignature(Unwrap(target))
      [] q.method = "GetTokenAccountBalance" ->
            LET target == IF IsSome(q.pubkey) THEN q.pubkey
                          ELSE IF IsSome(q.params) /\ Unwrap(q.params).kind = "string"
                          THEN Some(Unwrap(q.params).string)
                          ELSE None
            IN target = None \/ ~ParsesAsPubkey(Unwrap(target))
      [] q.method = "GetBlockHeight" -> FALSE
      [] q.method = "GetMultipleAccounts" ->
            \/ q.params = None
            \/ Unwrap(q.params).kind \notin {"array", "string"}
            \/ /\ Unwrap(q.params).kind = "string"
               /\ ~ParsesAsPubkey(Unwrap(q.params).string)
            \/ /\ Unwrap(q.params).kind = "array"
               /\ LET items == Unwrap(q.params).items
                  IN \/ \A i \in 1 .. Len(items) : items[i].kind # "string"
                     \/ \E i \in 1 .. Len(items) :
                           items[i].kind = "string" /\ ~ParsesAsPubkey(items[i].string)

\* The positions of the malformed queries of a request.
MalformedSet(queries) == {i \in 1 .. Len(queries) : Malformed(queries[i])}

\* C7 (SpecExec): a malformed query yields a Failure carrying its own id; and
\* in a call of n queries where no task panicked and the RPC answered every
\* query that is not malformed, with F the malformed ones, succeeded_count is
\* n - |F|, failed_count is |F|, success is (F is empty), exactly the queries
\* of F failed, and the ids of the results are the request's ids in order.
C7_MalformedQueryFailsAlone ==
    (call_pc = "returned" /\ IsSome(outcome) /\ Unwrap(outcome).ok) =>
        LET queries == Unwrap(request).queries
            n == Len(queries)
            F == MalformedSet(queries)
            response == Unwrap(outcome).value
        IN /\ \A i \in F : handles[i].state = "finished" =>
                  /\ ~response.results[i].success
                  /\ response.results[i].id = queries[i].id
                  /\ IsSome(response.results[i].error)
           /\ (\A i \in 1 .. n :
                  /\ handles[i].state = "finished"
                  /\ i \notin F => handles[i].rpc = Some("ok")) =>
                  /\ response.succeeded_count = n - Cardinality(F)
                  /\ response.failed_count = Cardinality(F)
                  /\ response.success = (F = {})
                  /\ \A i \in 1 .. n : response.results[i].success = (i \notin F)
                  /\ [i \in 1 .. n |-> response.results[i].id] = [i \in 1 .. n |-> queries[i].id]

\* A call of two queries has returned: the first is malformed and failed, the
\* second was answered by the RPC and succeeded.
C7_Witness ==
    /\ call_pc = "returned"
    /\ IsSome(outcome)
    /\ Unwrap(outcome).ok
    /\ Len(handles) = 2
    /\ Malformed(handles[1].query)
    /\ ~Malformed(handles[2].query)
    /\ handles[1].state = "finished"
    /\ handles[2].rpc = Some("ok")
    /\ Unwrap(outcome).value.succeeded_count = 1
    /\ Unwrap(outcome).value.failed_count = 1

\* The number of results of rs whose success flag is flag.
RECURSIVE CountFlag(_, _)
CountFlag(rs, flag) ==
    IF rs = <<>> THEN 0
    ELSE (IF Head(rs).success = flag THEN 1 ELSE 0) + CountFlag(Tail(rs), flag)

\* C8 (SpecHash): for every result sequence, from_results returns
\* succeeded_count = the number of results with success = true, failed_count =
\* the number with success = false, the two adding up to the length, and
\* success = true exactly when no result has success = false; the empty
\* sequence gives success = true with both counts 0.
C8_CountsAndSuccess ==
    \A k \in DOMAIN hash_in :
        IsSome(hash_in[k]) =>
            LET rs == Unwrap(hash_in[k]).results
                response == Unwrap(hash_out[k])
            IN /\ response.succeeded_count = CountFlag(rs, TRUE)
               /\ response.failed_count = CountFlag(rs, FALSE)
               /\ response.succeeded_count + response.failed_count = Len(rs)
               /\ response.success = (CountFlag(rs, FALSE) = 0)
               /\ rs = <<>> => /\ response.success
                               /\ response.succeeded_count = 0
                               /\ response.failed_count = 0

\* from_results has been called on the empty sequence and on a sequence of one
\* success and one failure.
C8_Witness ==
    /\ IsSome(hash_in[1])
    /\ Unwrap(hash_in[1]).results = <<>>
    /\ IsSome(hash_in[2])
    /\ CountFlag(Unwrap(hash_in[2]).results, TRUE) = 1
    /\ CountFlag(Unwrap(hash_in[2]).results, FALSE) = 1

\* The (id, success flag, success data or nothing) tuples of a result sequence.
Tuples(rs) == [i \in 1 .. Len(rs) |-> <<rs[i].id, rs[i].success, rs[i].data>>]

\* C9 (SpecHash): two from_results calls over result sequences with the same
\* (id, success flag, data) tuples in the same order return the same
\* batch_hash, whatever the failure messages and the elapsed times are.
C9_HashOfTuplesOnly ==
    (/\ IsSome(hash_in[1])
     /\ IsSome(hash_in[2])
     /\ Tuples(Unwrap(hash_in[1]).results) = Tuples(Unwrap(hash_in[2]).results))
    => Unwrap(hash_out[1]).batch_hash = Unwrap(hash_out[2]).batch_hash

\* Two calls whose sequences have the same tuples but differ in a failure
\* message, with different elapsed times.
C9_Witness ==
    /\ IsSome(hash_in[1])
    /\ IsSome(hash_in[2])
    /\ Tuples(Unwrap(hash_in[1]).results) = Tuples(Unwrap(hash_in[2]).results)
    /\ Unwrap(hash_in[1]).results # Unwrap(hash_in[2]).results
    /\ Unwrap(hash_in[1]).execution_time_ms # Unwrap(hash_in[2]).execution_time_ms

\* t holds the results of s in another order.
IsPermutation(s, t) ==
    /\ Len(s) = Len(t)
    /\ \E p \in [1 .. Len(s) -> 1 .. Len(s)] :
          /\ \A i, j \in 1 .. Len(s) : p[i] = p[j] => i = j
          /\ \A i \in 1 .. Len(s) : t[i] = s[p[i]]

\* C10 (SpecHash): for every result sequence and every permutation of it
\* whose tuples make a different sequence, the bytes from_results feeds to
\* the digest differ from those of the original sequence, and so does the
\* batch_hash.
C10_PermutationChangesHash ==
    (/\ IsSome(hash_in[1])
     /\ IsSome(hash_in[2])
     /\ IsPermutation(Unwrap(hash_in[1]).results, Unwrap(hash_in[2]).results)
     /\ Tuples(Unwrap(hash_in[1]).results) # Tuples(Unwrap(hash_in[2]).results))
    => /\ HashMaterial(Unwrap(hash_in[1]).results) # HashMaterial(Unwrap(hash_in[2]).results)
       /\ Unwrap(hash_out[1]).batch_hash # Unwrap(hash_out[2]).batch_hash

(***************************************************************************)
(* SpecClientHash: execute_batch over requests that differ in the          *)
(* batch_hash the client supplies.                                         *)
(***************************************************************************)
\* What a client may put in batch_hash: nothing, the digest of no result, or
\* the digest the server computes for one failed getBalance of id "b".
ClientHashes ==
    { None,
      Some(Sha256Hex(<<>>)),
      Some(Sha256Hex(<<"b", "0">>)) }

ClientHashQueries ==
    { Query(<<"a">>, "GetBlockHeight", None, None),
      Query(<<"b">>, "GetBalance", Some(JUNK), None) }

NextClientHash ==
    \/ \E qs \in SeqsUpTo(ClientHashQueries, MaxQueries), h \in ClientHashes :
          HandleExecuteBatch(BatchRequest(qs, h, None), TRUE)
    \/ CallStep

SpecClientHash == InitPollerOff /\ [][NextClientHash]_vars

\* The results the join loop collects from the handles of a call.
Joined(hs) == [i \in 1 .. Len(hs) |-> JoinResult(hs[i])]

\* C11 (SpecClientHash): the response of a call is determined by what its
\* tasks produced and the elapsed time alone, and its batch_hash is the
\* digest of the results: the batch_hash the client supplied (absent, or any
\* value) changes nothing of the response.
C11_ClientHashIsAdvisory ==
    (call_pc = "returned" /\ handles # <<>>) =>
        /\ IsSome(outcome)
        /\ \E t \in Times : outcome = Some(Ok(from_results(Joined(handles), t)))
        /\ Unwrap(outcome).value.batch_hash =
               Sha256Hex(HashMaterial(Unwrap(outcome).value.results))

\* A call has returned whose request carried a batch_hash other than the
\* digest of its results.
C11_Witness ==
    /\ call_pc = "returned"
    /\ IsSome(outcome)
    /\ Unwrap(outcome).ok
    /\ IsSome(Unwrap(request).batch_hash)
    /\ Unwrap(Unwrap(request).batch_hash) # Unwrap(outcome).value.batch_hash

(***************************************************************************)
(* SpecDecode: parse_batch_data called once on a buffer.                   *)
(***************************************************************************)
\* The Batch accounts the buffers are taken from: a batch of each status
\* with up to MaxItems queries, as the ledger's instructions leave it.
Statuses == {"Pending", "Finalized", "Executed"}
SampleBumps == {254, 255}

BatchSample(id, status, count, bump) ==
    [id |-> id,
     status |-> status,
     query_count |-> count,
     query_hashes |-> [i \in 1 .. count |-> i],
     submitters |-> [i \in 1 .. count |-> IF i % 2 = 1 THEN "alice" ELSE "authority"],
     created_at |-> 1000,
     finalized_at |-> IF status = "Pending" THEN None ELSE Some(1050),
     results_hash |-> IF status = "Executed" THEN Some(7) ELSE None,
     bump |-> bump]

BatchSamples ==
    {BatchSample(7, status, count, bump) :
        status \in Statuses, count \in 0 .. MaxItems, bump \in SampleBumps}

\* The serialized batches, every proper prefix of each, the account data
\* they sit in, and each of these with another byte at the status offset.
ValidBuffers == {SerializeBatch(batch) : batch \in BatchSamples}
ProperPrefixes(buffer) == {SubSeq(buffer, 1, k) : k \in 0 .. (Len(buffer) - 1)}
AccountDatas == {BatchAccountData(batch) : batch \in BatchSamples}
WellFormedInputs ==
    ValidBuffers \cup AccountDatas \cup UNION {ProperPrefixes(buffer) : buffer \in ValidBuffers}
UnknownStatusBytes == {3, 255}
DecodeInputs ==
    WellFormedInputs
    \cup {[data EXCEPT ![17] = byte] :
            data \in {d \in WellFormedInputs : Len(d) >= 17}, byte \in UnknownStatusBytes}

ParseBatchData(data) ==
    /\ decode_in = None
    /\ decode_in' = Some(data)
    /\ decode_out' = Some(parse_batch_data(data))
    /\ UNCHANGED <<ledger_vars, enable_poller, poller_vars, call_vars, hash_vars>>

NextDecode == \E data \in DecodeInputs : ParseBatchData(data)

SpecDecode == InitPollerOff /\ [][NextDecode]_vars

IsProperPrefix(prefix, buffer) ==
    Len(prefix) < Len(buffer) /\ prefix = SubSeq(buffer, 1, Len(prefix))

\* C12: when parse_batch_data was given a proper prefix of a valid serialized
\* Batch buffer, the call returned, and what it returned is None.
C12_TruncatedBufferIsAbsent ==
    (IsSome(decode_in)
        /\ \E buffer \in ValidBuffers : IsProperPrefix(Unwrap(decode_in), buffer))
    => decode_out = Some(Returned(None))

\* C13, as the spec states it: the decode of a valid buffer keeps every piece
\* of information of the buffer, so no other valid buffer decodes to the same
\* record and a re-encoding can reproduce the bytes.
C13_RoundTripWholeBuffer ==
    (IsSome(decode_in) /\ Unwrap(decode_in) \in ValidBuffers)
    => \A other \in ValidBuffers :
          parse_batch_data(other) = Unwrap(decode_out) => other = Unwrap(decode_in)

\* C13, amended: the decode of a valid buffer returns a record, and encoding
\* that record's fields in the account layout reproduces the bytes of the
\* buffer between the 8-byte discriminator and the trailing bump byte.
C13_RoundTripOfFields ==
    (IsSome(decode_in) /\ Unwrap(decode_in) \in ValidBuffers)
    => /\ Unwrap(decode_out).exit = "return"
       /\ IsSome(Unwrap(decode_out).value)
       /\ EncodeFields(Unwrap(Unwrap(decode_out).value))
            = SubSeq(Unwrap(decode_in), 9, Len(Unwrap(decode_in)) - 1)

C13_Witness ==
    /\ IsSome(decode_in)
    /\ Unwrap(decode_in) = SerializeBatch(BatchSample(7, "Executed", MaxItems, 255))
    /\ Unwrap(decode_out).exit = "return"
    /\ IsSome(Unwrap(decode_out).value)

\* C14: the record parse_batch_data returns for the data of a Batch account
\* the ledger wrote has the ledger's id, status, query_count, query_hashes,
\* submitters, created_at, finalized_at and results_hash.
C14_DecoderFidelity ==
    \A batch \in BatchSamples :
        (decode_in = Some(BatchAccountData(batch)) \/ decode_in = Some(SerializeBatch(batch)))
        => decode_out = Some(Returned(Some(OnChainBatch(batch))))

\* The example of the claim: id 7, status byte 1, two hashes, two submitters,
\* created_at 1000, finalized_at present with 1050, results_hash absent.
C14_Witness ==
    /\ decode_in = Some(BatchAccountData(BatchSample(7, "Finalized", 2, 255)))
    /\ IsSome(decode_out)
    /\ Unwrap(decode_out).exit = "return"
    /\ IsSome(Unwrap(decode_out).value)
    /\ LET batch == Unwrap(Unwrap(decode_out).value)
       IN /\ batch.id = 7
          /\ batch.status = "Finalized"
          /\ Len(batch.query_hashes) = 2
          /\ Len(batch.submitters) = 2
          /\ batch.created_at = 1000
          /\ batch.finalized_at = Some(1050)
          /\ batch.results_hash = None

\* C15: when the byte after the 8-byte discriminator and the 8-byte id is not
\* 0, 1 or 2, parse_batch_data returns None.
C15_UnknownStatusIsAbsent ==
    (IsSome(decode_in) /\ Len(Unwrap(decode_in)) >= 17
        /\ Unwrap(decode_in)[17] \notin {0, 1, 2})
    => decode_out = Some(Returned(None))

C15_Witness ==
    /\ IsSome(decode_in)
    /\ Len(Unwrap(decode_in)) = BatchSize(MAX_QUERIES)
    /\ Unwrap(decode_in)[17] = 255
    /\ decode_out = Some(Returned(None))

\* The ids of the batches a scan pushes, read off the history of its
\* get_batch calls: the calls that returned a batch whose status is
\* Finalized, in probe order.
IsFinalizedAnswer(probe) ==
    probe.exit = "return" /\ probe.status = Some("Finalized")

FinalizedAnswers ==
    LET kept == SelectSeq(probes, IsFinalizedAnswer)
    IN [k \in 1 .. Len(kept) |-> kept[k].id]

\* C16: a scan probes the ids 0, 1, 2, ... in this order, each once and none
\* at or past the counter it read at its start; when its loop has ended it
\* has probed every id below that counter, and the batches it returns are
\* exactly the probed batches that were read with status Finalized.  The
\* counter is a value the ledger's batch_counter had.
C16_ScanProbesCounterRange ==
    /\ \A k \in 1 .. Len(probes) : probes[k].id = k - 1
    /\ Len(probes) <= scan_counter
    /\ poller_pc = "scan" =>
          /\ Len(probes) = scan_i
          /\ [j \in 1 .. Len(finalized) |-> finalized[j].id] = FinalizedAnswers
          /\ \A j \in 1 .. Len(finalized) : finalized[j].status = "Finalized"
    /\ (poller_pc = "scan" /\ scan_i = scan_counter) => Len(probes) = scan_counter
    /\ scan_counter <= (IF coordinator_state = None THEN 0
                        ELSE Unwrap(coordinator_state).batch_counter)

\* A scan over counter = MaxBatches that ended, one probe answered with a
\* Finalized batch and one not, while the ledger's counter moved on or not.
C16_Witness ==
    /\ poller_pc = "scan"
    /\ scan_counter = MaxBatches
    /\ scan_i = scan_counter
    /\ Len(probes) = MaxBatches
    /\ Len(finalized) = 1
    /\ \E k \in 1 .. Len(probes) :
          /\ probes[k].exit = "return"
          /\ IsSome(probes[k].status)
          /\ probes[k].status # Some("Finalized")

\* C17: a get_batch that fails for one id of a scan, by a read error or by
\* bytes that do not decode, is not fatal: the poller task lives on and the
\* scan goes on to the next id, the failed id left out of its result.
C17_ProbeFailureIsNotFatal ==
    \A k \in 1 .. Len(probes) :
        (probes[k].exit = "panic" \/ probes[k].status = None) =>
            /\ poller_pc # "panicked"
            /\ scan_i >= k
            /\ \A j \in 1 .. Len(finalized) : finalized[j].id # probes[k].id

\* The ledger is unavailable to a read of the coordinator account: the read
\* fails, or answers with data shorter than 50 bytes.
CounterUnavailable(rpc) ==
    \/ coordinator_state = None
    \/ rpc = "err"
    \/ rpc = "empty"
    \/ (rpc = "cut" /\ CutLen < 50)

\* C18: a poll cycle that finds the ledger unavailable when it reads the
\* batch counter is a no-op: nothing is found or surfaced, processed_batches
\* is unchanged, and the poller is back at the start of a cycle, from where
\* the next one scans.
C18_UnavailableLedgerIsNoOp ==
    [][\A rpc \in RpcReads :
          (PollReadCounter(rpc) /\ CounterUnavailable(rpc)) =>
              /\ poller_pc' = "idle"
              /\ UNCHANGED <<scan_counter, scan_i, finalized, probes, new_batches,
                             processed_batches, discovered>>]_vars

\* A cycle found the ledger unavailable, and a later cycle scanned and
\* surfaced a batch.
C18_Witness ==
    /\ warned
    /\ poller_pc = "insert"
    /\ processed_batches = {}

\* C19: processed_batches only grows: every step leaves it a superset of
\* what it was, so is_batch_processed, once true of an id, stays true.
C19_ProcessedSetOnlyGrows ==
    [][/\ processed_batches \subseteq processed_batches'
       /\ \A id \in BatchIds : is_batch_processed(id) => is_batch_processed(id)']_vars

\* Every batch has been inserted, one after the other.
C19_Witness == \A id \in BatchIds : is_batch_processed(id)

\* C20: whatever instructions the ledger runs, a step that changes the status
\* of a batch takes it from Pending to Finalized or from Finalized to
\* Executed; a new batch starts Pending and no batch account goes away.
C20_StatusMovesForwardOneStep ==
    [][\A id \in BatchIds :
          /\ IsSome(batch_accounts[id]) => IsSome(batch_accounts'[id])
          /\ (batch_accounts[id] = None /\ IsSome(batch_accounts'[id]))
                => Unwrap(batch_accounts'[id]).status = "Pending"
          /\ (IsSome(batch_accounts[id])
                /\ Unwrap(batch_accounts'[id]).status # Unwrap(batch_accounts[id]).status)
                => <<Unwrap(batch_accounts[id]).status, Unwrap(batch_accounts'[id]).status>>
                      \in {<<"Pending", "Finalized">>, <<"Finalized", "Executed">>}]_vars

\* A batch went through both changes while another is still Pending.
C20_Witness ==
    \E id, other \in BatchIds :
        /\ IsSome(batch_accounts[id])
        /\ Unwrap(batch_accounts[id]).status = "Executed"
        /\ IsSome(Unwrap(batch_accounts[id]).finalized_at)
        /\ IsSome(batch_accounts[other])
        /\ Unwrap(batch_accounts[other]).status = "Pending"

(***************************************************************************)
(* SpecLedger: the ledger program alone, every instruction with every      *)
(* input, accepted or rejected.                                            *)
(***************************************************************************)
LedgerHashes == {1, 2}
LedgerResultHashes == {7, 8}
LedgerSizePairs == SizePairs \cup {<<1, 1>>}

NextLedger ==
    \/ \E a \in Authorities, p \in LedgerSizePairs : Initialize(a, p[1], p[2])
    \/ \E a \in Authorities, p \in LedgerSizePairs : InitializeRejected(a, p[1], p[2])
    \/ \E now \in Clock : CreateBatch(now)
    \/ \E id \in BatchIds, h \in LedgerHashes, s \in Submitters : SubmitQuery(id, h, s)
    \/ \E id \in BatchIds, h \in LedgerHashes, s \in Submitters : SubmitQueryRejected(id, h, s)
    \/ \E id \in BatchIds, now \in Clock : FinalizeBatch(id, now)
    \/ \E id \in BatchIds, now \in Clock : FinalizeBatchRejected(id, now)
    \/ \E id \in BatchIds, h \in LedgerResultHashes, e \in Keys : CompleteBatch(id, h, e)
    \/ \E id \in BatchIds, h \in LedgerResultHashes, e \in Keys : CompleteBatchRejected(id, h, e)

SpecLedger == InitPollerOff /\ [][NextLedger]_vars

\* The batches the ledger holds.
Batches == {Unwrap(batch_accounts[id]) : id \in {i \in BatchIds : IsSome(batch_accounts[i])}}

\* C21: every batch has 0 <= query_count <= max_batch_size, and every batch
\* that is Finalized or Executed has query_count >= min_batch_size.
C21_QueryCountWithinSizes ==
    \A batch \in Batches :
        /\ 0 <= batch.query_count
        /\ batch.query_count <= Unwrap(coordinator_state).max_batch_size
        /\ batch.status \in {"Finalized", "Executed"}
              => batch.query_count >= Unwrap(coordinator_state).min_batch_size

\* A full batch, a submission to it refused, and a batch finalized at its
\* minimum.
C21_Witness ==
    /\ tx_err = Some("BatchFull")
    /\ \E batch \in Batches :
          batch.query_count = Unwrap(coordinator_state).max_batch_size
    /\ \E batch \in Batches :
          /\ batch.status = "Finalized"
          /\ batch.query_count = Unwrap(coordinator_state).min_batch_size

NoDuplicateHash ==
    \A batch \in Batches :
        \A i, j \in 1 .. Len(batch.query_hashes) :
            i # j => batch.query_hashes[i] # batch.query_hashes[j]

\* A submit_query transaction for a hash the batch already holds.
SubmitsHeldHash(id, h, s) ==
    /\ SubmitQuery(id, h, s) \/ SubmitQueryRejected(id, h, s)
    /\ Contains(Unwrap(batch_accounts[id]).query_hashes, h)

\* C22, as the spec states it: no batch holds a hash twice, and submit_query
\* with a hash already in the batch fails with DuplicateQuery.
C22_DuplicateFailsWithDuplicateQuery ==
    [][\A id \in BatchIds, h \in LedgerHashes, s \in Submitters :
          SubmitsHeldHash(id, h, s) =>
              /\ tx_err' = Some("DuplicateQuery")
              /\ UNCHANGED batch_accounts]_vars

\* C22, amended: no batch holds a hash twice, and submit_query with a hash
\* already in the batch fails and changes nothing: with DuplicateQuery when
\* the batch is Pending and not full, with BatchNotPending or BatchFull, which
\* are checked first, when it is not.
C22_NoDuplicateHash ==
    /\ []NoDuplicateHash
    /\ [][\A id \in BatchIds, h \in LedgerHashes, s \in Submitters :
             SubmitsHeldHash(id, h, s) =>
                 LET batch == Unwrap(batch_accounts[id])
                 IN /\ UNCHANGED batch_accounts
                    /\ tx_err' = Some(IF batch.status # "Pending" THEN "BatchNotPending"
                                      ELSE IF is_full(batch, Unwrap(coordinator_state).max_batch_size)
                                      THEN "BatchFull"
                                      ELSE "DuplicateQuery")]_vars

C22_Witness ==
    /\ tx_err = Some("DuplicateQuery")
    /\ \E batch \in Batches : Len(batch.query_hashes) = 1 /\ batch.status = "Pending"

\* C23: every batch has as many query hashes as submitters, and query_count
\* is that number.
C23_HashesSubmittersCount ==
    \A batch \in Batches :
        /\ Len(batch.query_hashes) = Len(batch.submitters)
        /\ Len(batch.submitters) = batch.query_count

C23_Witness ==
    \E batch \in Batches : batch.query_count = 2 /\ Len(batch.submitters) = 2

\* C24: for every batch, finalized_at is set exactly when the status is
\* Finalized or Executed, and results_hash exactly when it is Executed.
C24_OptionalFieldsFollowStatus ==
    \A batch \in Batches :
        /\ IsSome(batch.finalized_at) <=> batch.status \in {"Finalized", "Executed"}
        /\ IsSome(batch.results_hash) <=> batch.status = "Executed"

C24_Witness ==
    /\ \E batch \in Batches : batch.status = "Pending"
    /\ \E batch \in Batches : batch.status = "Executed" /\ IsSome(batch.results_hash)

\* C25: no step changes any field of a batch whose status is Executed.
C25_ExecutedIsImmutable ==
    [][\A id \in BatchIds :
          (IsSome(batch_accounts[id]) /\ Unwrap(batch_accounts[id]).status = "Executed")
              => batch_accounts'[id] = batch_accounts[id]]_vars

\* An Executed batch, a complete_batch for it refused, its results_hash the
\* one of the first complete_batch.
C25_Witness ==
    /\ tx_err = Some("BatchNotFinalized")
    /\ \E batch \in Batches : batch.status = "Executed" /\ batch.results_hash = Some(7)
    /\ \A batch \in Batches : batch.status # "Pending"

(***************************************************************************)
(* SpecJoin: execute_batch with its scheduling. Every spawned task ends    *)
(* (spawn_blocking runs each closure on a thread of its own and the RPC    *)
(* read is taken to terminate), and the runtime keeps polling the call's   *)
(* future, so a ready handle is joined and a finished loop returns.        *)
(***************************************************************************)
\* One query that reaches the RPC and one that fails before it.
JoinQueries ==
    { Query(<<"a">>, "GetBalance", Some(PK1), None),
      Query(<<"b">>, "GetBalance", Some(JUNK), None) }

JoinRequests == SeqsUpTo(JoinQueries, MaxQueries)

\* The task of handle i ends: it returns its QueryResult or it panics.
TaskEnds(i) ==
    \/ \E rpc \in RpcOutcomes : TaskRun(i, rpc)
    \/ TaskPanic(i)

NextJoin ==
    \/ \E qs \in JoinRequests : HandleExecuteBatch(BatchRequest(qs, None, None), TRUE)
    \/ \E i \in 1 .. Len(handles) : TaskEnds(i)
    \/ JoinNext
    \/ \E t \in Times : ExecuteBatchDone(t)
    \/ CallReset

SpecJoin ==
    /\ InitPollerOff
    /\ [][NextJoin]_vars
    /\ \A i \in 1 .. MaxQueries : WF_vars(TaskEnds(i))
    /\ WF_vars(JoinNext)
    /\ WF_vars(\E t \in Times : ExecuteBatchDone(t))

\* The call has spawned its tasks and has not returned yet.
Dispatched == call_pc = "joining"

\* No task of the call is still running, and each has its place in results.
EveryTaskJoined ==
    /\ \A i \in 1 .. Len(handles) : handles[i].state \in {"finished", "panicked"}
    /\ Len(results) = Len(handles)

\* C26: execute_batch produces its response only after every task it spawned
\* has finished, by returning or by panicking, so no task is still running or
\* abandoned when the call returns; and when every task ends, a dispatched
\* call eventually returns.
C26_ReturnsAfterEveryTaskFinished ==
    /\ [](call_pc = "returned" => EveryTaskJoined)
    /\ (Dispatched ~> call_pc = "returned")

\* A call of two queries has returned; the second task ended first and one of
\* the two panicked.
C26_Witness ==
    /\ call_pc = "returned"
    /\ Len(handles) = 2
    /\ finish_order = <<2, 1>>
    /\ \E i \in 1 .. 2 : handles[i].state = "panicked"
    /\ IsSome(outcome) /\ Unwrap(outcome).ok

\* C27: every query's task is spawned before the first one is awaited, and a
\* task that is slow, never completes or fails does not keep the others from
\* starting and completing: while the call joins, there is one task per
\* query of the request, and each task still running can run to its end
\* whatever the state of the others.
C27_TasksSpawnedBeforeFirstAwait ==
    call_pc = "joining" =>
        /\ Len(handles) = Len(Unwrap(request).queries)
        /\ \A i \in 1 .. Len(handles) :
              /\ handles[i].query = Unwrap(request).queries[i]
              /\ handles[i].state = "running" => ENABLED TaskRun(i, "ok")

\* Nothing is joined yet, the first task is still running, and the second
\* has already returned its result.
C27_Witness ==
    /\ call_pc = "joining"
    /\ results = <<>>
    /\ Len(handles) = 2
    /\ handles[1].state = "running"
    /\ handles[2].state = "finished"

\* C28: the poller loop, once started, never stops on its own: whatever a
\* cycle met, the poller has a next step to take (the rest of the cycle, or
\* the scan of the next cycle after the sleep).
C28_PollerLoopNeverStops == enable_poller => ENABLED PollerStep

\* The two shapes of a QueryResult.
IsSuccessShape(r) == r.success /\ IsSome(r.data) /\ r.error = None
IsFailureShape(r) == ~r.success /\ r.data = None /\ IsSome(r.error)

\* Every QueryResult the executor has produced in the current call: what the
\* finished tasks returned, what the join loop pushed (a task's result, or the
\* failure it makes of a JoinError), and what the response carries.
ProducedResults ==
    {Unwrap(handles[i].result) : i \in {j \in 1 .. Len(handles) : IsSome(handles[j].result)}}
    \cup {results[i] : i \in 1 .. Len(results)}
    \cup (IF IsSome(outcome) /\ Unwrap(outcome).ok
          THEN {Unwrap(outcome).value.results[i] :
                    i \in 1 .. Len(Unwrap(outcome).value.results)}
          ELSE {})

\* C29: every QueryResult the executor produces is exactly a Success
\* (success true, data present, error absent) or a Failure (success false,
\* data absent, error present).
C29_ResultIsSuccessOrFailure ==
    \A r \in ProducedResults : IsSuccessShape(r) \/ IsFailureShape(r)

\* A returned call of two queries holds the failure the join loop made of a
\* panicked task, and next to it a success a query executor returned.
C29_Witness ==
    /\ call_pc = "returned"
    /\ Len(results) = 2
    /\ handles[1].state = "panicked"
    /\ IsFailureShape(results[1]) /\ results[1].id = UNKNOWN
    /\ handles[2].state = "finished"
    /\ IsSuccessShape(results[2])

\* The ledger's batch with this id was finalized with enough queries: it
\* exists, is Finalized or Executed, and holds at least min_batch_size >= 1
\* queries.
FinalizedOnLedger(id) ==
    /\ IsSome(coordinator_state)
    /\ IsSome(batch_accounts[id])
    /\ Unwrap(batch_accounts[id]).status \in {"Finalized", "Executed"}
    /\ Unwrap(batch_accounts[id]).query_count >= Unwrap(coordinator_state).min_batch_size
    /\ Unwrap(coordinator_state).min_batch_size >= 1

\* C30: every id in processed_batches is the id of a ledger batch that the
\* poller read with status Finalized and surfaced, and that batch holds
\* query_count >= min_batch_size >= 1 queries; the same is true of the
\* batches a cycle is about to insert.
C30_ProcessedWasReadFinalized ==
    /\ \A id \in processed_batches : discovered[id] >= 1 /\ FinalizedOnLedger(id)
    /\ \A k \in 1 .. Len(new_batches) :
          /\ new_batches[k].status = "Finalized"
          /\ new_batches[k].query_count >= Unwrap(coordinator_state).min_batch_size
          /\ FinalizedOnLedger(new_batches[k].id)

\* Both batches are in processed_batches; one was finalized with exactly
\* min_batch_size queries and has been executed since.
C30_Witness ==
    /\ processed_batches = BatchIds
    /\ \E id \in BatchIds :
          /\ Unwrap(batch_accounts[id]).status = "Executed"
          /\ Unwrap(batch_accounts[id]).query_count = Unwrap(coordinator_state).min_batch_size

\* The query set of a batch account.
QuerySet(account) ==
    <<Unwrap(account).query_count, Unwrap(account).query_hashes, Unwrap(account).submitters>>

\* C34: the query set of a batch is frozen at finalization: a step taken when
\* the batch is Finalized or Executed leaves its query_count, query_hashes and
\* submitters as they were, and a submit_query sent to it is refused with
\* BatchNotPending; so an executed batch holds the queries it was finalized
\* with.
C34_QuerySetFrozenAtFinalization ==
    [][\A id \in BatchIds :
          (IsSome(batch_accounts[id])
              /\ Unwrap(batch_accounts[id]).status \in {"Finalized", "Executed"}) =>
             /\ IsSome(batch_accounts'[id])
             /\ QuerySet(batch_accounts'[id]) = QuerySet(batch_accounts[id])
             /\ \A h \in LedgerHashes, s \in Submitters :
                   SubmitQueryRejected(id, h, s) => tx_err' = Some("BatchNotPending")]_vars

\* A submit_query was refused with BatchNotPending while a batch that still
\* had room is Executed and no batch is Pending.
C34_Witness ==
    /\ tx_err = Some("BatchNotPending")
    /\ \E b \in Batches :
          /\ b.status = "Executed"
          /\ b.query_count < Unwrap(coordinator_state).max_batch_size
    /\ \A b \in Batches : b.status # "Pending"

\* The ledger's batch_counter; 0 before initialize.
BatchCounter == IF coordinator_state = None THEN 0 ELSE Unwrap(coordinator_state).batch_counter

\* The batch accounts that exist are those at the addresses 0 .. batch_counter - 1,
\* and the account at address i holds the batch with id i.
DenseIds ==
    /\ {i \in BatchIds : IsSome(batch_accounts[i])} = 0 .. (BatchCounter - 1)
    /\ \A i \in BatchIds : IsSome(batch_accounts[i]) => Unwrap(batch_accounts[i]).id = i

\* C35: batch ids are dense and unique: create_batch gives the new batch the
\* id batch_counter had before the call and adds one to batch_counter, and in
\* every ledger state the existing batches have exactly the ids
\* 0 .. batch_counter - 1, each once, so a scan over [0, batch_counter) passes
\* every existing batch.
C35_BatchIdsDenseAndUnique ==
    /\ []DenseIds
    /\ [][\A now \in Clock :
             CreateBatch(now) =>
                /\ BatchCounter' = BatchCounter + 1
                /\ IsSome(batch_accounts'[BatchCounter])
                /\ Unwrap(batch_accounts'[BatchCounter]).id = BatchCounter
                /\ \A i \in BatchIds \ {BatchCounter} : batch_accounts'[i] = batch_accounts[i]]_vars

\* MaxBatches batches have been created, and the first has moved on since.
C35_Witness ==
    /\ BatchCounter = MaxBatches
    /\ \A i \in BatchIds : IsSome(batch_accounts[i])
    /\ Unwrap(batch_accounts[0]).status = "Finalized"
    /\ Unwrap(batch_accounts[MaxBatches - 1]).status = "Pending"

\* The errors each instruction can fail with.
SubmitQueryErrors == {"BatchNotPending", "BatchFull", "DuplicateQuery"}
FinalizeBatchErrors == {"InsufficientQueries"}
CompleteBatchErrors == {"BatchNotFinalized", "Unauthorized"}

\* In the current ledger state, whatever instruction is sent: when its body
\* fails, the error is one of the instruction's errors and the batch the body
\* was working on is the batch it was given.
FailedBodyWroteNothing ==
    \A id \in BatchIds :
        (IsSome(coordinator_state) /\ IsSome(batch_accounts[id])) =>
            LET state == Unwrap(coordinator_state)
                batch == Unwrap(batch_accounts[id])
            IN /\ \A h \in LedgerHashes, s \in Submitters :
                     LET r == submit_query(state, batch, h, s)
                     IN r.err # None =>
                           Unwrap(r.err) \in SubmitQueryErrors /\ r.batch = batch
               /\ \A now \in Clock :
                     LET r == finalize_batch(state, batch, now)
                     IN r.err # None =>
                           /\ Unwrap(r.err) \in FinalizeBatchErrors /\ r.batch = batch
                           /\ batch.status # "Pending" => r.err = Some("InsufficientQueries")
               /\ \A h \in LedgerResultHashes, e \in Keys :
                     LET r == complete_batch(state, batch, h, e)
                     IN r.err # None =>
                           Unwrap(r.err) \in CompleteBatchErrors /\ r.batch = batch

\* C36: a rejected ledger instruction changes nothing: when submit_query,
\* finalize_batch or complete_batch fails, the sender gets one of the
\* instruction's errors (InsufficientQueries also for a batch that is not
\* Pending), the failed body has written nothing, and the step leaves every
\* batch and the coordinator config exactly as before the call.
C36_RejectedInstructionChangesNothing ==
    /\ []FailedBodyWroteNothing
    /\ [][(\E id \in BatchIds :
              \/ \E h \in LedgerHashes, s \in Submitters : SubmitQueryRejected(id, h, s)
              \/ \E now \in Clock : FinalizeBatchRejected(id, now)
              \/ \E h \in LedgerResultHashes, e \in Keys : CompleteBatchRejected(id, h, e))
           => /\ IsSome(tx_err')
              /\ Unwrap(tx_err') \in SubmitQueryErrors \cup FinalizeBatchErrors \cup CompleteBatchErrors
              /\ UNCHANGED <<coordinator_state, batch_accounts>>]_vars

\* A finalize_batch was refused for want of queries while the ledger holds a
\* Pending batch with a query, a Finalized one and the config.
C36_Witness ==
    /\ tx_err = Some("InsufficientQueries")
    /\ \E b \in Batches : b.status = "Pending" /\ b.query_count = 1
    /\ \E b \in Batches : b.status = "Finalized"

\* The authority set at initialize.
Authority == Unwrap(coordinator_state).authority

\* C37: only the coordinator authority can mark a batch Executed: a
\* complete_batch that is accepted was signed by coordinator_state.authority,
\* one signed by any other key is refused with Unauthorized, and a batch
\* becomes Executed only in a complete_batch step of the authority, with the
\* results_hash that call supplied; the authority itself never changes.
C37_OnlyAuthorityCompletes ==
    [][/\ \A id \in BatchIds, h \in LedgerResultHashes, e \in Keys :
             /\ CompleteBatch(id, h, e) => e = Authority
             /\ (CompleteBatchRejected(id, h, e) /\ e # Authority) =>
                    tx_err' = Some("Unauthorized")
       /\ \A id \in BatchIds :
             (/\ IsSome(batch_accounts'[id])
              /\ Unwrap(batch_accounts'[id]).status = "Executed"
              /\ ~(IsSome(batch_accounts[id]) /\ Unwrap(batch_accounts[id]).status = "Executed"))
             => \E h \in LedgerResultHashes :
                   /\ CompleteBatch(id, h, Authority)
                   /\ Unwrap(batch_accounts'[id]).results_hash = Some(h)
       /\ IsSome(coordinator_state) =>
             Unwrap(coordinator_state').authority = Authority]_vars

\* Another key's complete_batch was refused with Unauthorized while one
\* batch is Executed and another is Finalized and still waits.
C37_Witness ==
    /\ tx_err = Some("Unauthorized")
    /\ \E b \in Batches : b.status = "Executed" /\ IsSome(b.results_hash)
    /\ \E b \in Batches : b.status = "Finalized" /\ b.results_hash = None

\* C38: the encoding from_results hashes is injective on result sequences:
\* two from_results calls over sequences that differ in a (id, success flag,
\* success data) tuple, or in length, feed different bytes to the digest and
\* return different batch_hash values.
C38_HashEncodingInjective ==
    (/\ IsSome(hash_in[1])
     /\ IsSome(hash_in[2])
     /\ Tuples(Unwrap(hash_in[1]).results) # Tuples(Unwrap(hash_in[2]).results))
    => /\ HashMaterial(Unwrap(hash_in[1]).results) # HashMaterial(Unwrap(hash_in[2]).results)
       /\ Unwrap(hash_out[1]).batch_hash # Unwrap(hash_out[2]).batch_hash

(***************************************************************************)
(* SpecCrossCheck: the ledger, the poller and the /execute-batch handler   *)
(* side by side, over requests that name a batch.                          *)
(***************************************************************************)
\* Requests of no query and of one query, naming batch 0; the ledger's
\* batches are finalized with one query hash.
CrossCheckRequests ==
    { BatchRequest(qs, None, Some(Decimal(0))) :
        qs \in { <<>>, <<Query(<<"a">>, "GetBlockHeight", None, None)>> } }

NextCrossCheck ==
    \/ \E a \in Authorities : Initialize(a, 1, 1)
    \/ \E now \in Clock : CreateBatch(now)
    \/ \E id \in BatchIds, s \in Submitters :
          /\ IsSome(batch_accounts[id])
          /\ SubmitQuery(id, FreshHash(Unwrap(batch_accounts[id])), s)
    \/ \E id \in BatchIds, now \in Clock : FinalizeBatch(id, now)
    \/ \E id \in BatchIds, h \in ResultHashes, e \in Keys : CompleteBatch(id, h, e)
    \/ PollReadCounter("ok")
    \/ PollProbe("ok")
    \/ PollFilter
    \/ PollDiscover
    \/ PollInsert
    \/ \E req \in CrossCheckRequests, rpc_ok \in BOOLEAN : HandleExecuteBatch(req, rpc_ok)
    \/ \E i \in 1 .. Len(handles) : TaskRun(i, "ok")
    \/ JoinNext
    \/ ExecuteBatchDone(0)
    \/ CallReset

SpecCrossCheck == Init /\ [][NextCrossCheck]_vars

\* The request went past the handler's cross-check: it was not answered with
\* the invalid-request error.
CrossCheckPassed ==
    ~(IsSome(outcome) /\ ~Unwrap(outcome).ok /\ Unwrap(outcome).error.kind = "InvalidQuery")

NamesFinalized(req) ==
    IsSome(NamedAccount(req)) /\ Unwrap(NamedAccount(req)).status = "Finalized"

IsFinalized(id) ==
    IsSome(batch_accounts[id]) /\ Unwrap(batch_accounts[id]).status = "Finalized"

\* In the current cycle every read of the config account and of this batch's
\* account was answered in full and decoded.
ReadableSoFar(id) ==
    /\ ~warned
    /\ \A k \in 1 .. Len(probes) :
          probes[k].id = id => (probes[k].exit = "return" /\ IsSome(probes[k].status))

\* C31: discovery liveness, in the form every finite run can be held to: as
\* long as a batch is Finalized, readable and decodable and its id is not yet
\* in processed_batches, the poller is still there to surface it (it has a
\* next step, so that fair scheduling brings the id into processed_batches).
C31_FinalizedBatchGetsSurfaced ==
    \A id \in BatchIds :
        (enable_poller /\ IsFinalized(id) /\ ReadableSoFar(id) /\ id \notin processed_batches)
            => ENABLED PollerStep

\* The ids of a sequence of batches.
IdsOf(batches) == {batches[j].id : j \in 1 .. Len(batches)}

\* C32: within one poll cycle, every batch the scan returned whose id is not
\* yet in processed_batches is kept for handling; each is discovered first
\* and its id inserted after that, one batch after the other; and the cycle
\* ends only when none is left, so that every id the scan returned is then in
\* processed_batches.
C32_DiscoveryBeforeInsert ==
    /\ [](poller_pc = "dispatch" =>
             /\ new_batches # <<>>
             /\ Head(new_batches).id \notin processed_batches
             /\ discovered[Head(new_batches).id] = 0)
    /\ [](poller_pc = "insert" =>
             /\ new_batches # <<>>
             /\ Head(new_batches).id \notin processed_batches
             /\ discovered[Head(new_batches).id] = 1)
    /\ [](poller_pc \in {"idle", "scan"} => new_batches = <<>>)
    /\ [][(poller_pc = "scan" /\ poller_pc' \in {"idle", "dispatch"}) =>
             /\ IdsOf(finalized) = (IdsOf(finalized) \cap processed_batches) \cup IdsOf(new_batches')
             /\ IdsOf(new_batches') \cap processed_batches = {}]_vars
    /\ [][(poller_pc = "insert" /\ poller_pc' # "insert") =>
             /\ processed_batches' = processed_batches \cup {Head(new_batches).id}
             /\ new_batches' = Tail(new_batches)
             /\ poller_pc' = (IF new_batches' = <<>> THEN "idle" ELSE "dispatch")]_vars

\* One cycle surfaced two batches: the first is inserted, the second has
\* been discovered and its insert comes next.
C32_Witness ==
    /\ poller_pc = "insert"
    /\ Len(new_batches) = 1
    /\ processed_batches = BatchIds \ {Head(new_batches).id}
    /\ Cardinality(processed_batches) = MaxBatches - 1
    /\ \A id \in BatchIds : discovered[id] = 1

(***************************************************************************)
(* SpecLock: the ledger, the poller at the grain of its lock operations,   *)
(* and MaxReaders concurrent callers of is_batch_processed.                *)
(***************************************************************************)
NextLock ==
    \/ \E a \in Authorities : Initialize(a, 1, 1)
    \/ \E now \in Clock : CreateBatch(now)
    \/ \E id \in BatchIds, s \in Submitters :
          /\ IsSome(batch_accounts[id])
          /\ SubmitQuery(id, FreshHash(Unwrap(batch_accounts[id])), s)
    \/ \E id \in BatchIds, now \in Clock : FinalizeBatch(id, now)
    \/ PollReadCounter("ok")
    \/ PollProbe("ok")
    \/ (finalized = <<>> /\ PollFilter)
    \/ PollReadLock
    \/ PollFilterLocked
    \/ PollDiscover
    \/ PollWriteLock
    \/ PollInsertLocked
    \/ \E r \in Readers : ReaderAcquire(r)
    \/ \E r \in Readers : ReaderRelease(r)

SpecLock == Init /\ [][NextLock]_vars

\* The poller stands at `write().await`, its request not yet granted.
RequestsWrite == poller_pc = "insert"

\* C33: the poller never requests the write lock on processed_batches while
\* it holds the read lock, and holds no guard from one insert to the next;
\* so it cannot deadlock on processed_batches, however many readers call
\* is_batch_processed: when its write request is not granted at once, a guard
\* of a reader is out and that reader can release it; and no reader holds a
\* guard while an insert is in progress, every change of the set being made
\* under the write guard.
C33_NoWriteRequestUnderReadGuard ==
    /\ [](RequestsWrite => poller_guard = "none")
    /\ [](poller_pc \in {"idle", "scan", "dispatch"} => poller_guard = "none")
    /\ [](RequestsWrite =>
             \/ ENABLED PollWriteLock
             \/ \E r \in Readers : ENABLED ReaderRelease(r))
    /\ [](poller_guard = "write" => reader_guards = {})
    /\ [][processed_batches' # processed_batches =>
             (poller_guard = "write" /\ reader_guards = {} /\ poller_guard' = "none")]_vars

\* The poller waits at write().await for its second insert of the cycle
\* while every reader holds a read guard.
C33_Witness ==
    /\ RequestsWrite
    /\ reader_guards = Readers
    /\ Cardinality(processed_batches) = 1
    /\ Len(new_batches) = 1

====
